---- MODULE Spec2Model ----
(***************************************************************************)
(* Model of the VeinView backend (Django REST): device registry (placa),   *)
(* practice-session state machine, sensor ingestion and the RA live-feed   *)
(* sessions.  Every HTTP handler is one atomic action over the relational  *)
(* state; timezone.now() is the model clock `now`, counted in ticks of     *)
(* 1/TicksPerSecond seconds so that int(total_seconds()) truncates.        *)
(***************************************************************************)
EXTENDS Integers, Sequences, FiniteSets, TLC

(* ------------------------------ bounds -------------------------------- *)
MaxEstudiantes == 1
MaxDispositivos == 2
MaxPracticas == 1
MaxDatos == 2
MaxDatosRegistro == 1
MaxKeys == 2
MaxSesiones == 1
MaxTokens == 2
MaxEventos == 2
MaxEnviados == 2
MaxNow == 4
MaxNowPlaca == 1
MaxDuracion == 3
MaxNowRA == 60
MaxMuestras == 3
MaxDatosEvaluacion == 3
MaxDatosStream == 101
MaxRecientes == 1
MaxEnviadosStream == 101
MaxNowStream == 30
MaxPracticasActivas == 2
MaxEstudiantesRegistro == 2
MaxPeticiones == 2
MaxSesionesRA == 2

(* clock steps, in ticks: half a second for the practice                   *)
(* state machine, fifteen seconds for the RA inactivity window             *)
TicksPerSecond == 2
PasosPractica == {1}
PasosRA == {30}

(* --------------------------- input domains ---------------------------- *)
NoKey == 0
Keys == 1..MaxKeys
Tokens == 1..MaxTokens
NoMac == <<>>
MacInputs == {NoMac, <<"a", "1">>, <<"A", "1">>, <<"b", "2">>}
NombrePorDefecto == "VeinView Device"
Nombres == {NombrePorDefecto, "Otro Nombre"}
Ips == {"10.0.0.1"}
Codigos == {"E1"}
Correos == {"e1@x.co"}
Null == -1
\* <<pitch, fuerza>> payloads on and around the thresholds
Lecturas == {<<10, 50>>, <<30, 300>>, <<9, 50>>, <<31, 300>>, <<10, 49>>, <<30, 301>>}
EstadoInputs == {"iniciada", "pausada", "finalizada", "otro"}

(* ------------------------------ state --------------------------------- *)
VARIABLES now, estudiantes, users, dispositivos, practicas, datos, sesiones, configs,
          resumenes, resp, peticiones

vars == <<now, estudiantes, users, dispositivos, practicas, datos, sesiones, configs,
          resumenes, resp, peticiones>>

\* the last request handled and its answer: the operation, the HTTP status,
\* the authenticated device (0 if none), the object id the answer refers to,
\* the api_key or token in the body, the boolean the body carries, the
\* numeric parameter of the request, and the list the request or the answer
\* carries (the ids of the rows returned, or the code and e-mail requested)
RespuestaCon(op, st, dev, obj, key, flag, arg, body) ==
    [op |-> op, status |-> st, dev |-> dev, obj |-> obj, key |-> key, flag |-> flag,
     arg |-> arg, body |-> body]

\* an answer to a request without numeric parameter that lists no rows
Respuesta(op, st, dev, obj, key, flag) ==
    RespuestaCon(op, st, dev, obj, key, flag, Null, <<>>)

\* a worker that is handling no request
Libre == [op |-> "libre"]

Init ==
    /\ now = 0
    /\ estudiantes = <<>>
    /\ users = {}
    /\ dispositivos = <<>>
    /\ practicas = <<>>
    /\ datos = <<>>
    /\ sesiones = <<>>
    /\ configs = {}
    /\ resumenes = <<>>
    /\ resp = Respuesta("none", 0, 0, 0, NoKey, FALSE)
    /\ peticiones = [r \in 1..MaxPeticiones |-> Libre]

(* --------------------------- deleted rows ----------------------------- *)
\* ids are never reused: a deleted row keeps its place in its table as a
\* row that no lookup finds
EstudianteEliminado == [codigo_estudiante |-> "", correo |-> ""]

PracticaEliminada ==
    [estudiante |-> 0, dispositivo |-> 0, estado |-> "eliminada", fecha_inicio |-> Null,
     fecha_pausa |-> Null, fecha_reanudacion |-> Null, fecha_fin |-> Null,
     duracion_total_segundos |-> 0, precision_promedio |-> <<0, 1>>, entrada |-> Null]

DatoEliminado ==
    [practica |-> 0, dispositivo |-> 0, angulo_pitch |-> 0, fuerza |-> 0,
     timestamp |-> Null, tecnica_correcta |-> FALSE]

SesionEliminada ==
    [estudiante |-> 0, practica |-> 0, session_token |-> NoKey, estado |-> "eliminada",
     fecha_inicio |-> Null, fecha_ultima_actividad |-> Null, fecha_fin |-> Null,
     total_datos_recibidos |-> 0, latencia_promedio |-> <<0, 1>>, muestras |-> 0,
     eventos |-> 0, visualizaciones |-> 0]

ResumenEliminado ==
    [practica |-> 0, total_datos_capturados |-> 0,
     inclinacion_promedio |-> <<0, 0>>, fuerza_promedio |-> <<0, 0>>,
     fuerza_maxima |-> Null, fuerza_minima |-> Null,
     tiempo_canalizacion |-> 0, precision_porcentaje |-> <<0, 1>>,
     calificacion |-> Null, tecnica_correcta |-> FALSE,
     angulo_adecuado |-> FALSE, presion_controlada |-> FALSE]

\* Estudiante.objects.get(id=...) finds a row
ExisteEstudiante(id) == id \in DOMAIN estudiantes /\ estudiantes[id] # EstudianteEliminado

\* PracticaActiva.objects.get(id=...) finds a row
ExistePractica(id) == id \in DOMAIN practicas /\ practicas[id].estado # "eliminada"

\* get_object() of the summaries viewset finds a row
ExisteResumen(id) == id \in DOMAIN resumenes /\ resumenes[id].practica # 0

(* ------------------------------ clock --------------------------------- *)
\* timezone.now() advances between requests
Avanzar(d, max) ==
    /\ now + d <= max
    /\ now' = now + d
    /\ resp' = Respuesta("avanzar", 0, 0, 0, NoKey, FALSE)
    /\ UNCHANGED <<estudiantes, users, dispositivos, practicas, datos, sesiones, configs, resumenes, peticiones>>

\* int((a - b).total_seconds()) for two instants given in ticks
TotalSeconds(a, b) == (a - b) \div TicksPerSecond

(* ----------------------------- students ------------------------------- *)
\* EstudianteViewSet.create: serializer validation, then User, then Estudiante
CrearEstudiante(codigo, correo) ==
    /\ IF \/ \E i \in DOMAIN estudiantes : estudiantes[i].codigo_estudiante = codigo
          \/ \E i \in DOMAIN estudiantes : estudiantes[i].correo = correo
       THEN /\ resp' = RespuestaCon("crear_estudiante", 400, 0, 0, NoKey, FALSE,
                                    Null, <<codigo, correo>>)
            /\ UNCHANGED <<estudiantes, users>>
       ELSE IF codigo \in users
       THEN /\ resp' = RespuestaCon("crear_estudiante", 400, 0, 0, NoKey, FALSE,
                                    Null, <<codigo, correo>>)
            /\ UNCHANGED <<estudiantes, users>>
       ELSE /\ users' = users \cup {codigo}
            /\ estudiantes' = Append(estudiantes,
                   [codigo_estudiante |-> codigo, correo |-> correo])
            /\ resp' = RespuestaCon("crear_estudiante", 201, 0, Len(estudiantes) + 1, NoKey,
                                    FALSE, Null, <<codigo, correo>>)
    /\ UNCHANGED <<now, dispositivos, practicas, datos, sesiones, configs, resumenes, peticiones>>

(* ----------------------------- devices -------------------------------- *)
\* str.upper() on one character of the hardware address
ToUpper(c) ==
    CASE c = "a" -> "A"
      [] c = "b" -> "B"
      [] OTHER -> c

\* the address taken as sent, without upper-casing
UpperIdentidad(mac) == mac

\* request.data.get('mac_address', '').upper()
Upper(mac) == [i \in DOMAIN mac |-> ToUpper(mac[i])]

\* secrets.token_urlsafe(48): a value no stored device holds yet
TokenUrlsafe == Keys \ {dispositivos[i].api_key : i \in DOMAIN dispositivos}

\* DispositivoESP32.save: the key is generated only when the row has none
DispositivoSave(dev, token) ==
    IF dev.api_key = NoKey THEN [dev EXCEPT !.api_key = token] ELSE dev

\* DispositivoESP32.objects.get(mac_address=...) ; 0 when DoesNotExist
DispositivoPorMac(mac) ==
    IF \E i \in DOMAIN dispositivos : dispositivos[i].mac_address = mac
    THEN CHOOSE i \in DOMAIN dispositivos : dispositivos[i].mac_address = mac
    ELSE 0

\* get_or_create that saves the defaults and a new key over an existing row
GetOrCreateRenueva(mac, nombre, ip, token) ==
    IF DispositivoPorMac(mac) # 0
    THEN [dispositivos EXCEPT ![DispositivoPorMac(mac)].nombre = nombre,
                              ![DispositivoPorMac(mac)].api_key = token]
    ELSE Append(dispositivos,
             DispositivoSave([mac_address |-> mac, nombre |-> nombre, api_key |-> NoKey,
                              activo |-> TRUE, ultima_conexion |-> Null,
                              ip_address |-> ip], token))

\* get_or_create(mac_address=..., defaults=...): the table after the call
GetOrCreate(mac, nombre, ip, token) ==
    IF DispositivoPorMac(mac) # 0
    THEN dispositivos
    ELSE Append(dispositivos,
             DispositivoSave([mac_address |-> mac, nombre |-> nombre, api_key |-> NoKey,
                              activo |-> TRUE, ultima_conexion |-> Null,
                              ip_address |-> ip], token))

\* registrar_dispositivo: POST /api/placa/registrar/
RegistrarDispositivo(macIn, nombre, ip) ==
    LET mac == Upper(macIn)
        existente == DispositivoPorMac(mac)
    IN
    /\ IF mac = NoMac
       THEN /\ resp' = Respuesta("registrar", 400, 0, 0, NoKey, FALSE)
            /\ UNCHANGED dispositivos
       ELSE IF existente # 0
       THEN /\ dispositivos' = GetOrCreate(mac, nombre, ip, NoKey)
            /\ resp' = Respuesta("registrar", 200, 0, existente,
                                 dispositivos'[existente].api_key, FALSE)
       ELSE \E token \in TokenUrlsafe :
            /\ dispositivos' = GetOrCreate(mac, nombre, ip, token)
            /\ resp' = Respuesta("registrar", 201, 0, Len(dispositivos'),
                                 dispositivos'[Len(dispositivos')].api_key, TRUE)
    /\ UNCHANGED <<now, estudiantes, users, practicas, datos, sesiones, configs, resumenes, peticiones>>

\* the lookup by key that takes an inactive device as well
DispositivoPorApiKeySinActivo(key) ==
    IF key # NoKey /\ \E i \in DOMAIN dispositivos : dispositivos[i].api_key = key
    THEN CHOOSE i \in DOMAIN dispositivos : dispositivos[i].api_key = key
    ELSE 0

\* DispositivoESP32.objects.get(api_key=api_key, activo=True); 0 when the key
\* is missing or matches no active device
DispositivoPorApiKey(key) ==
    IF key # NoKey /\ \E i \in DOMAIN dispositivos :
                         dispositivos[i].api_key = key /\ dispositivos[i].activo
    THEN CHOOSE i \in DOMAIN dispositivos :
             dispositivos[i].api_key = key /\ dispositivos[i].activo
    ELSE 0

\* verificar_api_key: the device table after a successful authentication
VerificarApiKey(key, ip) ==
    LET d == DispositivoPorApiKey(key) IN
    IF d = 0 THEN dispositivos
    ELSE [dispositivos EXCEPT ![d].ultima_conexion = now, ![d].ip_address = ip]

\* DispositivoESP32Admin: the administrator sets the field activo of a device
CambiarActivo(id, activo) ==
    /\ id \in DOMAIN dispositivos
    /\ dispositivos' = [dispositivos EXCEPT ![id].activo = activo]
    /\ resp' = Respuesta("admin_dispositivo", 0, 0, id, NoKey, activo)
    /\ UNCHANGED <<now, estudiantes, users, practicas, datos, sesiones, configs, resumenes, peticiones>>

(* ------------------------ practice sessions --------------------------- *)
RECURSIVE GCD(_, _)
GCD(a, b) == IF b = 0 THEN a ELSE GCD(b, a % b)

\* an exact fraction n/d in lowest terms (FloatField values that are quotients)
Frac(n, d) == IF n = 0 THEN <<0, 1>> ELSE <<n \div GCD(n, d), d \div GCD(n, d)>>

\* PracticaActiva.pausar at instant t
pausar(p, t) ==
    IF p.estado = "iniciada"
    THEN [p EXCEPT !.estado = "pausada",
                   !.fecha_pausa = t,
                   !.duracion_total_segundos =
                       p.duracion_total_segundos +
                       (IF p.fecha_reanudacion # Null
                        THEN TotalSeconds(t, p.fecha_reanudacion)
                        ELSE TotalSeconds(t, p.fecha_inicio))]
    ELSE p

\* reanudar that restarts the accumulated duration
reanudarReinicia(p, t) ==
    IF p.estado = "pausada"
    THEN [p EXCEPT !.estado = "iniciada", !.fecha_reanudacion = t,
                   !.duracion_total_segundos = 0]
    ELSE p

\* PracticaActiva.reanudar at instant t
reanudar(p, t) ==
    IF p.estado = "pausada"
    THEN [p EXCEPT !.estado = "iniciada", !.fecha_reanudacion = t]
    ELSE p

\* the indices of the readings of practice id (self.datos_sensores.all())
DatosDe(id) == {i \in DOMAIN datos : datos[i].practica = id}

\* the range filter that looks at the pitch alone
EnRangoSoloAngulo(r) ==
    /\ r.angulo_pitch >= 10
    /\ r.angulo_pitch <= 30

\* the range filter of calcular_metricas, on the raw pitch and force
EnRango(r) ==
    /\ r.angulo_pitch >= 10
    /\ r.angulo_pitch <= 30
    /\ r.fuerza >= 50
    /\ r.fuerza <= 300

\* calcular_metricas that stores the ratio without the factor 100
calcular_metricasFraccion(p, id) ==
    IF DatosDe(id) # {}
    THEN [p EXCEPT !.precision_promedio =
              Frac(Cardinality({i \in DatosDe(id) : EnRango(datos[i])}),
                   Cardinality(DatosDe(id)))]
    ELSE p

\* PracticaActiva.calcular_metricas for practice id held in record p
calcular_metricas(p, id) ==
    IF DatosDe(id) # {}
    THEN [p EXCEPT !.precision_promedio =
              Frac(Cardinality({i \in DatosDe(id) : EnRango(datos[i])}) * 100,
                   Cardinality(DatosDe(id)))]
    ELSE p

\* finalizar with the elapsed time folded in from 'pausada' as well
finalizarSumaEnPausa(p, id, t) ==
    IF p.estado \in {"iniciada", "pausada"}
    THEN calcular_metricas(
           [p EXCEPT !.estado = "finalizada",
                     !.fecha_fin = t,
                     !.duracion_total_segundos =
                         p.duracion_total_segundos +
                         (IF p.fecha_reanudacion # Null
                          THEN TotalSeconds(t, p.fecha_reanudacion)
                          ELSE TotalSeconds(t, p.fecha_inicio))], id)
    ELSE p

\* PracticaActiva.finalizar at instant t
finalizar(p, id, t) ==
    IF p.estado \in {"iniciada", "pausada"}
    THEN calcular_metricas(
           [p EXCEPT !.estado = "finalizada",
                     !.fecha_fin = t,
                     !.duracion_total_segundos =
                         IF p.estado = "iniciada"
                         THEN p.duracion_total_segundos +
                              (IF p.fecha_reanudacion # Null
                               THEN TotalSeconds(t, p.fecha_reanudacion)
                               ELSE TotalSeconds(t, p.fecha_inicio))
                         ELSE p.duracion_total_segundos], id)
    ELSE p

\* the record q that a request at instant t stores in place of p, with the
\* instant at which the practice entered its present stay in 'iniciada'
\* (entrada, kept beside the row for the duration properties; Null elsewhere)
Cronometrar(p, q, t) ==
    [q EXCEPT !.entrada = IF q.estado # "iniciada" THEN Null
                          ELSE IF p.estado = "iniciada" THEN p.entrada
                          ELSE t]

\* PracticaActivaViewSet.create: POST /api/placa/practicas/ (0 = id not sent)
CrearPractica(estudiante_id, dispositivo_id) ==
    /\ IF estudiante_id = 0 \/ dispositivo_id = 0
       THEN /\ resp' = Respuesta("crear_practica", 400, 0, 0, NoKey, FALSE)
            /\ UNCHANGED practicas
       ELSE IF ~ExisteEstudiante(estudiante_id)
                \/ dispositivo_id \notin DOMAIN dispositivos
       THEN /\ resp' = Respuesta("crear_practica", 404, 0, 0, NoKey, FALSE)
            /\ UNCHANGED practicas
       ELSE /\ practicas' = Append(practicas,
                   [estudiante |-> estudiante_id, dispositivo |-> dispositivo_id,
                    estado |-> "iniciada", fecha_inicio |-> now,
                    fecha_pausa |-> Null, fecha_reanudacion |-> Null,
                    fecha_fin |-> Null, duracion_total_segundos |-> 0,
                    precision_promedio |-> <<0, 1>>, entrada |-> now])
            /\ resp' = Respuesta("crear_practica", 201, 0, Len(practicas) + 1, NoKey, FALSE)
    /\ UNCHANGED <<now, estudiantes, users, dispositivos, datos, sesiones, configs, resumenes, peticiones>>

\* the branch of partial_update taken for the requested estado
TransicionPatch(p, id, nuevo_estado, t) ==
    IF nuevo_estado = "pausada" /\ p.estado = "iniciada" THEN pausar(p, t)
    ELSE IF nuevo_estado = "iniciada" /\ p.estado = "pausada" THEN reanudar(p, t)
    ELSE IF nuevo_estado = "finalizada" THEN finalizar(p, id, t)
    ELSE [p EXCEPT !.estado = nuevo_estado]

\* PracticaActivaViewSet.partial_update: PATCH /api/placa/practicas/{id}/
PartialUpdate(id, nuevo_estado) ==
    /\ IF ~ExistePractica(id)
       THEN /\ resp' = Respuesta("patch", 404, 0, id, NoKey, FALSE)
            /\ UNCHANGED practicas
       ELSE IF nuevo_estado \notin {"iniciada", "pausada", "finalizada"}
       THEN /\ resp' = Respuesta("patch", 400, 0, id, NoKey, FALSE)
            /\ UNCHANGED practicas
       ELSE /\ practicas' = [practicas EXCEPT
                   ![id] = Cronometrar(practicas[id],
                               TransicionPatch(practicas[id], id, nuevo_estado, now), now)]
            /\ resp' = Respuesta("patch_" \o nuevo_estado, 200, 0, id, NoKey, FALSE)
    /\ UNCHANGED <<now, estudiantes, users, dispositivos, datos, sesiones, configs, resumenes, peticiones>>

\* the elapsed time that always counts from fecha_inicio
tiempo_transcurridoDesdeInicio(p, t) ==
    IF p.estado = "finalizada" THEN p.duracion_total_segundos
    ELSE IF p.estado = "pausada" THEN p.duracion_total_segundos
    ELSE p.duracion_total_segundos + TotalSeconds(t, p.fecha_inicio)

\* tiempo_transcurrido of practice record p at instant t, as the serializer
\* and the two status views compute it: int(duration + seconds since the
\* resume, or since the start), the duration being a whole number
tiempo_transcurrido(p, t) ==
    IF p.estado = "finalizada" THEN p.duracion_total_segundos
    ELSE IF p.estado = "pausada" THEN p.duracion_total_segundos
    ELSE p.duracion_total_segundos +
         (IF p.fecha_reanudacion # Null
          THEN TotalSeconds(t, p.fecha_reanudacion)
          ELSE TotalSeconds(t, p.fecha_inicio))

\* PracticaActivaViewSet.retrieve: GET /api/placa/practicas/{id}/
RetrievePractica(id) ==
    /\ resp' = IF ~ExistePractica(id)
               THEN Respuesta("retrieve_practica", 404, 0, id, NoKey, FALSE)
               ELSE RespuestaCon("retrieve_practica", 200, 0, id, NoKey, FALSE,
                                 tiempo_transcurrido(practicas[id], now), <<>>)
    /\ UNCHANGED <<now, estudiantes, users, dispositivos, practicas, datos, sesiones, configs, resumenes, peticiones>>

\* metricas_tiempo_real: GET /api/profesor/metricas-tiempo-real/ (0 = no id)
MetricasTiempoReal(practica_id) ==
    /\ resp' = IF practica_id = 0
               THEN Respuesta("metricas_tiempo_real", 400, 0, 0, NoKey, FALSE)
               ELSE IF ~ExistePractica(practica_id)
               THEN Respuesta("metricas_tiempo_real", 404, 0, practica_id, NoKey, FALSE)
               ELSE RespuestaCon("metricas_tiempo_real", 200, 0, practica_id, NoKey, FALSE,
                                 tiempo_transcurrido(practicas[practica_id], now), <<>>)
    /\ UNCHANGED <<now, estudiantes, users, dispositivos, practicas, datos, sesiones, configs, resumenes, peticiones>>

\* a direct call of the model method pausar() on a stored practice
LlamarPausar(id) ==
    /\ ExistePractica(id)
    /\ practicas' = [practicas EXCEPT ![id] = Cronometrar(practicas[id], pausar(practicas[id], now), now)]
    /\ resp' = Respuesta("pausar", 0, 0, id, NoKey, FALSE)
    /\ UNCHANGED <<now, estudiantes, users, dispositivos, datos, sesiones, configs, resumenes, peticiones>>

\* a direct call of the model method reanudar() on a stored practice
LlamarReanudar(id) ==
    /\ ExistePractica(id)
    /\ practicas' = [practicas EXCEPT ![id] = Cronometrar(practicas[id], reanudar(practicas[id], now), now)]
    /\ resp' = Respuesta("reanudar", 0, 0, id, NoKey, FALSE)
    /\ UNCHANGED <<now, estudiantes, users, dispositivos, datos, sesiones, configs, resumenes, peticiones>>

\* a direct call of the model method finalizar() on a stored practice
LlamarFinalizar(id) ==
    /\ ExistePractica(id)
    /\ practicas' = [practicas EXCEPT ![id] = Cronometrar(practicas[id], finalizar(practicas[id], id, now), now)]
    /\ resp' = Respuesta("finalizar", 0, 0, id, NoKey, FALSE)
    /\ UNCHANGED <<now, estudiantes, users, dispositivos, datos, sesiones, configs, resumenes, peticiones>>

(* -------------------------- sensor ingestion -------------------------- *)
\* save with the upper thresholds taken as exclusive
DatosSensorSaveEstricto(r) ==
    [r EXCEPT !.tecnica_correcta =
        (10 <= r.angulo_pitch /\ r.angulo_pitch < 30 /\
         50 <= r.fuerza /\ r.fuerza < 300)]

\* DatosSensor.save: the flag is recomputed from the reading's own values
DatosSensorSave(r) ==
    [r EXCEPT !.tecnica_correcta =
        (10 <= r.angulo_pitch /\ r.angulo_pitch <= 30 /\
         50 <= r.fuerza /\ r.fuerza <= 300)]

\* PracticaActiva.objects.filter(dispositivo=d, estado__in=estados).first()
\* under Meta.ordering = ['-fecha_inicio']; 0 when there is none
PrimeraPractica(d, estados) ==
    LET S == {i \in DOMAIN practicas :
                 practicas[i].dispositivo = d /\ practicas[i].estado \in estados}
    IN IF S = {} THEN 0
       ELSE CHOOSE i \in S : \A j \in S :
                \/ practicas[j].fecha_inicio < practicas[i].fecha_inicio
                \/ (practicas[j].fecha_inicio = practicas[i].fecha_inicio /\ j <= i)

\* admission that also takes a 'pausada' practice
PracticaParaDatosConPausada(d) == PrimeraPractica(d, {"iniciada", "pausada"})

\* the practice a reading of device d is attached to: filter(dispositivo=d,
\* estado='iniciada').first(); 0 when there is none
PracticaParaDatos(d) == PrimeraPractica(d, {"iniciada"})

\* verificar_conexion: GET /api/placa/ping/
Ping(key, ip) ==
    LET d == DispositivoPorApiKey(key) IN
    /\ dispositivos' = VerificarApiKey(key, ip)
    /\ resp' = RespuestaCon("ping", IF d = 0 THEN 401 ELSE 200, d, d, NoKey, FALSE,
                            key, <<>>)
    /\ UNCHANGED <<now, estudiantes, users, practicas, datos, sesiones, configs, resumenes, peticiones>>

\* obtener_practica_activa: GET /api/placa/practica-activa/
ObtenerPracticaActiva(key, ip) ==
    LET d == DispositivoPorApiKey(key)
        pa == PrimeraPractica(d, {"iniciada", "pausada"})
    IN
    /\ dispositivos' = VerificarApiKey(key, ip)
    /\ resp' = IF d = 0
               THEN RespuestaCon("practica_activa", 401, d, 0, NoKey, FALSE, key, <<>>)
               ELSE RespuestaCon("practica_activa", 200, d, pa, NoKey,
                                 pa # 0 /\ practicas[pa].estado = "iniciada", key, <<>>)
    /\ UNCHANGED <<now, estudiantes, users, practicas, datos, sesiones, configs, resumenes, peticiones>>

\* enviar_datos_sensores: POST /api/placa/datos/ ; valido is the outcome of
\* DatosSensorCreateSerializer.is_valid() on the payload
EnviarDatosSensores(key, ip, valido, pitch, fuerza) ==
    LET d == DispositivoPorApiKey(key)
        pa == PracticaParaDatos(d)
    IN
    /\ dispositivos' = VerificarApiKey(key, ip)
    /\ IF d = 0
       THEN /\ resp' = RespuestaCon("datos", 401, d, 0, NoKey, FALSE, key, <<>>)
            /\ UNCHANGED datos
       ELSE IF pa = 0
       THEN /\ resp' = RespuestaCon("datos", 400, d, 0, NoKey, FALSE, key, <<>>)
            /\ UNCHANGED datos
       ELSE IF ~valido
       THEN /\ resp' = RespuestaCon("datos", 400, d, pa, NoKey, TRUE, key, <<>>)
            /\ UNCHANGED datos
       ELSE /\ datos' = Append(datos,
                   DatosSensorSave([practica |-> pa, dispositivo |-> d,
                                    angulo_pitch |-> pitch, fuerza |-> fuerza,
                                    timestamp |-> now, tecnica_correcta |-> FALSE]))
            /\ resp' = RespuestaCon("datos", 201, d, pa, NoKey, TRUE, key, <<>>)
    /\ UNCHANGED <<now, estudiantes, users, practicas, sesiones, configs, resumenes, peticiones>>

(* ------------------------ requests in flight -------------------------- *)
\* the handlers run without a lock or a transaction: a request loads its own
\* copy of the rows it needs in one step and writes in a later one, and other
\* requests may run in between. peticiones[r] is what worker r holds.

\* the answered requests, in the order they finished
Turno == 1 + Cardinality({r \in 1..MaxPeticiones :
                             peticiones[r].op \in {"patch_hecha", "datos_hecha"}})

\* Model.save() that writes only the fields the request changed on its copy
GuardarCamposCambiados(almacenada, copia, nueva) ==
    [f \in DOMAIN nueva |-> IF nueva[f] # copia[f] THEN nueva[f] ELSE almacenada[f]]

\* Model.save() without update_fields: every field of the instance is written
\* over the stored row, the ones the request did not touch included
GuardarFila(almacenada, copia, nueva) == nueva

\* the branch of partial_update taken on copy p calls save()
TransicionGuarda(p, nuevo_estado) ==
    nuevo_estado = "finalizada" => p.estado \in {"iniciada", "pausada"}

\* partial_update up to practica = self.get_object() and the check of estado
PatchCargar(r, id, nuevo_estado) ==
    /\ peticiones[r] = Libre
    /\ IF ~ExistePractica(id)
       THEN /\ resp' = Respuesta("patch", 404, 0, id, NoKey, FALSE)
            /\ UNCHANGED peticiones
       ELSE IF nuevo_estado \notin {"iniciada", "pausada", "finalizada"}
       THEN /\ resp' = Respuesta("patch", 400, 0, id, NoKey, FALSE)
            /\ UNCHANGED peticiones
       ELSE /\ peticiones' = [peticiones EXCEPT ![r] =
                   [op |-> "patch", id |-> id, nuevo_estado |-> nuevo_estado,
                    copia |-> practicas[id]]]
            /\ resp' = Respuesta("patch_cargar", 0, 0, id, NoKey, FALSE)
    /\ UNCHANGED <<now, estudiantes, users, dispositivos, practicas, datos, sesiones, configs, resumenes>>

\* the rest of partial_update: the model method runs on the loaded copy and
\* its save() writes the row
PatchGuardar(r) ==
    /\ peticiones[r].op = "patch"
    /\ LET id == peticiones[r].id
           copia == peticiones[r].copia
           nuevo_estado == peticiones[r].nuevo_estado
           nueva == TransicionPatch(copia, id, nuevo_estado, now)
           guarda == TransicionGuarda(copia, nuevo_estado)
       IN /\ ExistePractica(id)
          /\ practicas' = IF guarda
                          THEN [practicas EXCEPT ![id] =
                                  Cronometrar(practicas[id],
                                      GuardarFila(practicas[id], copia, nueva), now)]
                          ELSE practicas
          /\ peticiones' = [peticiones EXCEPT ![r] =
                [op |-> "patch_hecha", id |-> id, nuevo_estado |-> nuevo_estado,
                 copia |-> copia, escrita |-> nueva, guarda |-> guarda,
                 t |-> now, turno |-> Turno]]
          /\ resp' = Respuesta("patch_" \o nuevo_estado, 200, 0, id, NoKey, FALSE)
    /\ UNCHANGED <<now, estudiantes, users, dispositivos, datos, sesiones, configs, resumenes>>

\* enviar_datos_sensores up to the lookup of the practice in 'iniciada'
DatosCargar(r, key, ip) ==
    LET d == DispositivoPorApiKey(key)
        pa == PracticaParaDatos(d)
    IN
    /\ peticiones[r] = Libre
    /\ dispositivos' = VerificarApiKey(key, ip)
    /\ IF d = 0
       THEN /\ resp' = RespuestaCon("datos", 401, d, 0, NoKey, FALSE, key, <<>>)
            /\ UNCHANGED peticiones
       ELSE IF pa = 0
       THEN /\ resp' = RespuestaCon("datos", 400, d, 0, NoKey, FALSE, key, <<>>)
            /\ UNCHANGED peticiones
       ELSE /\ peticiones' = [peticiones EXCEPT ![r] =
                   [op |-> "datos", dispositivo |-> d, practica |-> pa, key |-> key]]
            /\ resp' = RespuestaCon("datos_cargar", 0, d, pa, NoKey, FALSE, key, <<>>)
    /\ UNCHANGED <<now, estudiantes, users, practicas, datos, sesiones, configs, resumenes>>

\* the rest of enviar_datos_sensores: validation and DatosSensor.objects.create
\* for the practice found before
DatosCrear(r, valido, pitch, fuerza) ==
    /\ peticiones[r].op = "datos"
    /\ LET d == peticiones[r].dispositivo
           pa == peticiones[r].practica
           key == peticiones[r].key
       IN /\ ExistePractica(pa)
          /\ IF ~valido
             THEN /\ resp' = RespuestaCon("datos", 400, d, pa, NoKey, TRUE, key, <<>>)
                  /\ peticiones' = [peticiones EXCEPT ![r] = Libre]
                  /\ UNCHANGED datos
             ELSE /\ datos' = Append(datos,
                         DatosSensorSave([practica |-> pa, dispositivo |-> d,
                                          angulo_pitch |-> pitch, fuerza |-> fuerza,
                                          timestamp |-> now, tecnica_correcta |-> FALSE]))
                  /\ peticiones' = [peticiones EXCEPT ![r] =
                         [op |-> "datos_hecha", dispositivo |-> d, practica |-> pa,
                          dato |-> Len(datos) + 1, t |-> now, turno |-> Turno]]
                  /\ resp' = RespuestaCon("datos", 201, d, pa, NoKey, TRUE, key, <<>>)
    /\ UNCHANGED <<now, estudiantes, users, dispositivos, practicas, sesiones, configs, resumenes>>

\* estado_sistema: GET /api/placa/estado/
EstadoSistema(key, ip) ==
    LET d == DispositivoPorApiKey(key)
        pa == PrimeraPractica(d, {"iniciada", "pausada"})
    IN
    /\ dispositivos' = VerificarApiKey(key, ip)
    /\ resp' = IF d = 0 THEN RespuestaCon("estado", 401, d, 0, NoKey, FALSE, key, <<>>)
               ELSE RespuestaCon("estado", 200, d, pa, NoKey, pa # 0, key, <<>>)
    /\ UNCHANGED <<now, estudiantes, users, practicas, datos, sesiones, configs, resumenes, peticiones>>

(* ---------------------------- RA sessions ----------------------------- *)
\* the inactivity window of SesionRA.esta_activa, in seconds
VentanaInactividad == 30

\* SesionRA.esta_activa at instant t
esta_activa(s, t) ==
    IF s.estado \notin {"activa", "pausada"} THEN FALSE
    ELSE (t - s.fecha_ultima_actividad) < VentanaInactividad * TicksPerSecond

\* SesionRA.objects.get(session_token=...); 0 when missing or DoesNotExist
SesionPorToken(token) ==
    IF token # NoKey /\ \E i \in DOMAIN sesiones : sesiones[i].session_token = token
    THEN CHOOSE i \in DOMAIN sesiones : sesiones[i].session_token = token
    ELSE 0

\* verificar_session_token: the session the token authenticates, 0 on 401
SesionVerificada(token) ==
    LET i == SesionPorToken(token) IN
    IF i # 0 /\ esta_activa(sesiones[i], now) THEN i ELSE 0

\* verificar_session_token: the session table after the call
VerificarSessionToken(token) ==
    LET i == SesionVerificada(token) IN
    IF i = 0 THEN sesiones
    ELSE [sesiones EXCEPT ![i].fecha_ultima_actividad = now]

\* secrets.token_urlsafe(48) in SesionRA.save: a token no stored session holds
SessionTokenUrlsafe == Tokens \ {sesiones[i].session_token : i \in DOMAIN sesiones}

\* conectar_ra: POST /api/ra/conectar/ (practica_id 0 = not sent); the field
\* muestras of a session counts the heartbeats that reported a latency (a
\* history of the requests, not a column)
ConectarRA(estudiante_id, practica_id) ==
    /\ IF \/ ~ExisteEstudiante(estudiante_id)
          \/ /\ practica_id # 0
             /\ \/ practica_id \notin DOMAIN practicas
                \/ practicas[practica_id].estado \notin {"iniciada", "pausada"}
       THEN /\ resp' = Respuesta("conectar", 400, 0, 0, NoKey, FALSE)
            /\ UNCHANGED <<sesiones, configs>>
       ELSE \E token \in SessionTokenUrlsafe :
            LET cerradas == [i \in DOMAIN sesiones |->
                    IF /\ sesiones[i].estudiante = estudiante_id
                       /\ sesiones[i].estado \in {"conectando", "activa", "pausada"}
                    THEN [sesiones[i] EXCEPT !.estado = "desconectada", !.fecha_fin = now]
                    ELSE sesiones[i]]
            IN /\ sesiones' = Append(cerradas,
                      [estudiante |-> estudiante_id, practica |-> practica_id,
                       session_token |-> token, estado |-> "activa",
                       fecha_inicio |-> now, fecha_ultima_actividad |-> now,
                       fecha_fin |-> Null, total_datos_recibidos |-> 0,
                       latencia_promedio |-> <<0, 1>>, muestras |-> 0,
                       eventos |-> 1, visualizaciones |-> 0])
               /\ configs' = configs \cup {estudiante_id}
               /\ resp' = Respuesta("conectar", 201, 0, Len(sesiones) + 1, token, TRUE)
    /\ UNCHANGED <<now, estudiantes, users, dispositivos, practicas, datos, resumenes, peticiones>>

\* min(limit, 100)
Min(a, b) == IF a <= b THEN a ELSE b

\* the number of rows of filter(practica=p).order_by('-timestamp')[:limit]
CuantosStream(p, limit) == Min(Cardinality(DatosDe(p)), limit)

\* the limit of a poll without the cap
LimiteStreamSinTope(limitIn) == IF limitIn = Null THEN 10 ELSE limitIn

\* min(int(request.GET.get('limit', 10)), 100); Null stands for no parameter
LimiteStream(limitIn) == Min(IF limitIn = Null THEN 10 ELSE limitIn, 100)

\* the ids of filter(practica=p).order_by('-timestamp')[:k] among the rows
\* 1..i: rows are stored in timestamp order (the clock never goes back), so
\* the descending order is the table read backwards, equal timestamps by
\* descending id
RECURSIVE UltimosDatos(_, _, _)
UltimosDatos(p, i, k) ==
    IF i = 0 \/ k <= 0 THEN <<>>
    ELSE IF datos[i].practica = p THEN <<i>> \o UltimosDatos(p, i - 1, k - 1)
    ELSE UltimosDatos(p, i - 1, k)

\* stream_datos_ra: GET /api/ra/stream/ ; a negative limit makes the slice
\* raise, after verificar_session_token has saved the activity
StreamDatosRA(token, limitIn) ==
    LET i == SesionVerificada(token)
        limit == LimiteStream(limitIn)
    IN
    /\ IF i = 0
       THEN /\ resp' = RespuestaCon("stream", 401, 0, SesionPorToken(token), NoKey, FALSE,
                                    limitIn, <<>>)
            /\ UNCHANGED sesiones
       ELSE IF sesiones[i].practica = 0
       THEN /\ sesiones' = VerificarSessionToken(token)
            /\ resp' = RespuestaCon("stream", 200, 0, i, NoKey, FALSE, limitIn, <<>>)
       ELSE IF limit < 0
       THEN /\ sesiones' = VerificarSessionToken(token)
            /\ resp' = RespuestaCon("stream", 500, 0, i, NoKey, FALSE, limitIn, <<>>)
       ELSE LET n == CuantosStream(sesiones[i].practica, limit) IN
            /\ sesiones' = [VerificarSessionToken(token) EXCEPT
                  ![i].total_datos_recibidos = sesiones[i].total_datos_recibidos + n,
                  ![i].visualizaciones = sesiones[i].visualizaciones + n]
            /\ resp' = RespuestaCon("stream", 200, 0, i, NoKey,
                  practicas[sesiones[i].practica].estado \in {"iniciada", "pausada"},
                  limitIn, UltimosDatos(sesiones[i].practica, Len(datos), limit))
    /\ UNCHANGED <<now, estudiantes, users, dispositivos, practicas, datos, configs, resumenes, peticiones>>

\* estado_practica_ra: GET /api/ra/estado-practica/
EstadoPracticaRA(token) ==
    LET i == SesionVerificada(token) IN
    /\ sesiones' = VerificarSessionToken(token)
    /\ resp' = IF i = 0
               THEN Respuesta("estado_practica", 401, 0, SesionPorToken(token), NoKey, FALSE)
               ELSE RespuestaCon("estado_practica", 200, 0, i, NoKey,
                                 sesiones[i].practica # 0,
                                 IF sesiones[i].practica = 0 THEN 0
                                 ELSE tiempo_transcurrido(practicas[sesiones[i].practica], now),
                                 <<>>)
    /\ UNCHANGED <<now, estudiantes, users, dispositivos, practicas, datos, configs, resumenes, peticiones>>

\* registrar_evento_ra: POST /api/ra/eventos/registrar/
RegistrarEventoRA(token) ==
    LET i == SesionVerificada(token) IN
    /\ IF i = 0
       THEN /\ resp' = Respuesta("evento", 401, 0, SesionPorToken(token), NoKey, FALSE)
            /\ UNCHANGED sesiones
       ELSE /\ sesiones' = [VerificarSessionToken(token) EXCEPT
                  ![i].eventos = sesiones[i].eventos + 1]
            /\ resp' = Respuesta("evento", 201, 0, i, NoKey, TRUE)
    /\ UNCHANGED <<now, estudiantes, users, dispositivos, practicas, datos, configs, resumenes, peticiones>>

\* the moving average of heartbeat_ra on exact fractions; latencia Null stands
\* for a request without latencia_cliente, and `if validated_data.get(...)`
\* is false for a reported 0.0 as well
NuevaLatencia(prom, latencia) ==
    IF latencia = Null \/ latencia = 0 THEN prom
    ELSE IF prom[1] = 0 THEN Frac(latencia, 1)
    ELSE Frac(4 * prom[1] + latencia * prom[2], 5 * prom[2])

\* heartbeat_ra: POST /api/ra/heartbeat/
HeartbeatRA(token, latencia) ==
    LET i == SesionPorToken(token) IN
    /\ IF token = NoKey
       THEN /\ resp' = Respuesta("heartbeat", 400, 0, 0, NoKey, FALSE)
            /\ UNCHANGED sesiones
       ELSE IF i = 0
       THEN /\ resp' = Respuesta("heartbeat", 404, 0, 0, NoKey, FALSE)
            /\ UNCHANGED sesiones
       ELSE /\ sesiones' = [sesiones EXCEPT
                  ![i].fecha_ultima_actividad = now,
                  ![i].latencia_promedio =
                      NuevaLatencia(sesiones[i].latencia_promedio, latencia),
                  ![i].muestras = IF latencia = Null THEN sesiones[i].muestras
                                  ELSE sesiones[i].muestras + 1]
            /\ resp' = RespuestaCon("heartbeat", 200, 0, i, NoKey, TRUE, latencia, <<>>)
    /\ UNCHANGED <<now, estudiantes, users, dispositivos, practicas, datos, configs, resumenes, peticiones>>

\* SesionRA.finalizar at instant t; save() also refreshes the auto_now field
finalizarSesion(s, t) ==
    [s EXCEPT !.estado = "desconectada", !.fecha_fin = t,
              !.fecha_ultima_actividad = t]

\* desconectar_ra: POST /api/ra/desconectar/
DesconectarRA(token) ==
    LET i == SesionPorToken(token) IN
    /\ IF token = NoKey
       THEN /\ resp' = Respuesta("desconectar", 400, 0, 0, NoKey, FALSE)
            /\ UNCHANGED sesiones
       ELSE IF i = 0
       THEN /\ resp' = Respuesta("desconectar", 404, 0, 0, NoKey, FALSE)
            /\ UNCHANGED sesiones
       ELSE /\ sesiones' = [sesiones EXCEPT
                  ![i] = finalizarSesion(
                             [sesiones[i] EXCEPT !.eventos = sesiones[i].eventos + 1], now)]
            /\ resp' = Respuesta("desconectar", 200, 0, i, NoKey, TRUE)
    /\ UNCHANGED <<now, estudiantes, users, dispositivos, practicas, datos, configs, resumenes, peticiones>>

(* ---------------------- evaluation summaries -------------------------- *)
\* a FloatField that is NULL
NullFrac == <<0, 0>>

\* the sum of campo over the readings with index in S
RECURSIVE Suma(_, _)
Suma(S, campo) ==
    IF S = {} THEN 0
    ELSE LET i == CHOOSE j \in S : TRUE
         IN datos[i][campo] + Suma(S \ {i}, campo)

\* Avg(campo) over the readings with index in S (S not empty)
Avg(S, campo) == Frac(Suma(S, campo), Cardinality(S))

\* Max(campo) and Min(campo) over the readings with index in S (S not empty)
MaxDe(S, campo) == CHOOSE v \in {datos[i][campo] : i \in S} :
                      \A i \in S : datos[i][campo] <= v

\* Min(campo) that returns the largest value
MinDeMayor(S, campo) == CHOOSE v \in {datos[i][campo] : i \in S} :
                           \A i \in S : datos[i][campo] <= v

MinDe(S, campo) == CHOOSE v \in {datos[i][campo] : i \in S} :
                      \A i \in S : datos[i][campo] >= v

\* lo <= (f or 0) <= hi for a stored fraction f that may be NULL
EntreFrac(f, lo, hi) ==
    IF f[2] = 0 THEN lo <= 0 /\ 0 <= hi
    ELSE lo * f[2] <= f[1] /\ f[1] <= hi * f[2]

\* calcular_estadisticas that adds the readings to the count it already holds
calcular_estadisticasAcumula(r) ==
    LET S == DatosDe(r.practica) IN
    IF S # {}
    THEN LET total == r.total_datos_capturados + Cardinality(S)
             avg_pitch == Avg(S, "angulo_pitch")
             avg_fuerza == Avg(S, "fuerza")
             correctos == Cardinality({i \in S : datos[i].tecnica_correcta})
         IN [r EXCEPT !.total_datos_capturados = total,
                      !.inclinacion_promedio = avg_pitch,
                      !.fuerza_promedio = avg_fuerza,
                      !.fuerza_maxima = MaxDe(S, "fuerza"),
                      !.fuerza_minima = MinDe(S, "fuerza"),
                      !.tiempo_canalizacion = practicas[r.practica].duracion_total_segundos,
                      !.precision_porcentaje = Frac(correctos * 100, total),
                      !.angulo_adecuado = EntreFrac(avg_pitch, 10, 30),
                      !.presion_controlada = EntreFrac(avg_fuerza, 50, 300),
                      !.tecnica_correcta = (EntreFrac(avg_pitch, 10, 30) /\
                                            EntreFrac(avg_fuerza, 50, 300))]
    ELSE r

\* calcular_estadisticas that takes the angle criterion alone as the overall flag
calcular_estadisticasSoloAngulo(r) ==
    LET S == DatosDe(r.practica) IN
    IF S # {}
    THEN LET total == Cardinality(S)
             avg_pitch == Avg(S, "angulo_pitch")
             avg_fuerza == Avg(S, "fuerza")
             correctos == Cardinality({i \in S : datos[i].tecnica_correcta})
         IN [r EXCEPT !.total_datos_capturados = total,
                      !.inclinacion_promedio = avg_pitch,
                      !.fuerza_promedio = avg_fuerza,
                      !.fuerza_maxima = MaxDe(S, "fuerza"),
                      !.fuerza_minima = MinDe(S, "fuerza"),
                      !.tiempo_canalizacion = practicas[r.practica].duracion_total_segundos,
                      !.precision_porcentaje = Frac(correctos * 100, total),
                      !.angulo_adecuado = EntreFrac(avg_pitch, 10, 30),
                      !.presion_controlada = EntreFrac(avg_fuerza, 50, 300),
                      !.tecnica_correcta = EntreFrac(avg_pitch, 10, 30)]
    ELSE r

\* ResumenPractica.calcular_estadisticas on the summary record r
calcular_estadisticas(r) ==
    LET S == DatosDe(r.practica) IN
    IF S # {}
    THEN LET total == Cardinality(S)
             avg_pitch == Avg(S, "angulo_pitch")
             avg_fuerza == Avg(S, "fuerza")
             correctos == Cardinality({i \in S : datos[i].tecnica_correcta})
         IN [r EXCEPT !.total_datos_capturados = total,
                      !.inclinacion_promedio = avg_pitch,
                      !.fuerza_promedio = avg_fuerza,
                      !.fuerza_maxima = MaxDe(S, "fuerza"),
                      !.fuerza_minima = MinDe(S, "fuerza"),
                      !.tiempo_canalizacion = practicas[r.practica].duracion_total_segundos,
                      !.precision_porcentaje =
                          IF total > 0 THEN Frac(correctos * 100, total) ELSE <<0, 1>>,
                      !.angulo_adecuado = EntreFrac(avg_pitch, 10, 30),
                      !.presion_controlada = EntreFrac(avg_fuerza, 50, 300),
                      !.tecnica_correcta = (EntreFrac(avg_pitch, 10, 30) /\
                                            EntreFrac(avg_fuerza, 50, 300))]
    ELSE r

\* round(n/d, 2) in hundredths, for n >= 0 and d > 0 (ties to the even digit)
Round2(n, d) ==
    LET q == (100 * n) \div d
        resto == (100 * n) % d
    IN IF 2 * resto > d THEN q + 1
       ELSE IF 2 * resto < d THEN q
       ELSE IF q % 2 = 0 THEN q ELSE q + 1

\* the points of one criterion, in tenths: full, partial inside the wider
\* band, or none
PuntosCriterio(cumple, f, lo, hi) ==
    IF cumple THEN 15
    ELSE IF EntreFrac(f, lo, hi) THEN 10
    ELSE 0

\* the grade that gives the partial credit whatever the mean is
calcular_calificacion_automaticaSinBanda(r) ==
    IF r.total_datos_capturados = 0 THEN r
    ELSE LET a == IF r.angulo_adecuado THEN 15 ELSE 10
             p == IF r.presion_controlada THEN 15 ELSE 10
             pn == r.precision_porcentaje[1]
             pd == r.precision_porcentaje[2]
         IN [r EXCEPT !.calificacion =
                Round2(20 * pn + (a + p) * 100 * pd, 1000 * pd)]

\* ResumenPractica.calcular_calificacion_automatica on the summary record r;
\* calificacion is held in hundredths of a point
calcular_calificacion_automatica(r) ==
    IF r.total_datos_capturados = 0 THEN r
    ELSE LET a == PuntosCriterio(r.angulo_adecuado, r.inclinacion_promedio, 5, 35)
             p == PuntosCriterio(r.presion_controlada, r.fuerza_promedio, 30, 400)
             pn == r.precision_porcentaje[1]
             pd == r.precision_porcentaje[2]
         IN [r EXCEPT !.calificacion =
                Round2(20 * pn + (a + p) * 100 * pd, 1000 * pd)]

\* hasattr(practica, 'resumen'): the summary of practice id, 0 when none
ResumenDe(id) ==
    IF \E i \in DOMAIN resumenes : resumenes[i].practica = id
    THEN CHOOSE i \in DOMAIN resumenes : resumenes[i].practica = id
    ELSE 0

\* ResumenPractica.objects.create(practica=...): the row with the defaults
ResumenNuevo(practica_id) ==
    [practica |-> practica_id, total_datos_capturados |-> 0,
     inclinacion_promedio |-> NullFrac, fuerza_promedio |-> NullFrac,
     fuerza_maxima |-> Null, fuerza_minima |-> Null,
     tiempo_canalizacion |-> 0, precision_porcentaje |-> <<0, 1>>,
     calificacion |-> Null, tecnica_correcta |-> FALSE,
     angulo_adecuado |-> FALSE, presion_controlada |-> FALSE]

\* ResumenPracticaViewSet.create: POST /api/profesor/resumenes/
CrearResumen(practica_id, calcular_automatico) ==
    /\ IF \/ practica_id \notin DOMAIN practicas
          \/ practicas[practica_id].estado # "finalizada"
          \/ ResumenDe(practica_id) # 0
       THEN /\ resp' = RespuestaCon("crear_resumen", 400, 0, 0, NoKey,
                                    calcular_automatico, practica_id, <<>>)
            /\ UNCHANGED resumenes
       ELSE /\ resumenes' = Append(resumenes,
                   IF calcular_automatico
                   THEN calcular_calificacion_automatica(
                            calcular_estadisticas(ResumenNuevo(practica_id)))
                   ELSE ResumenNuevo(practica_id))
            /\ resp' = RespuestaCon("crear_resumen", 201, 0, Len(resumenes) + 1, NoKey,
                                    calcular_automatico, practica_id, <<>>)
    /\ UNCHANGED <<now, estudiantes, users, dispositivos, practicas, datos, sesiones, configs, peticiones>>

\* ResumenPracticaViewSet.recalcular: POST /api/profesor/resumenes/{id}/recalcular/
Recalcular(id) ==
    /\ IF ~ExisteResumen(id)
       THEN /\ resp' = Respuesta("recalcular", 404, 0, id, NoKey, FALSE)
            /\ UNCHANGED resumenes
       ELSE /\ resumenes' = [resumenes EXCEPT ![id] =
                   calcular_calificacion_automatica(calcular_estadisticas(resumenes[id]))]
            /\ resp' = Respuesta("recalcular", 200, 0, id, NoKey, TRUE)
    /\ UNCHANGED <<now, estudiantes, users, dispositivos, practicas, datos, sesiones, configs, peticiones>>

\* ResumenPracticaViewSet.partial_update with the professor's grade:
\* PATCH /api/profesor/resumenes/{id}/ {"calificacion": nota}
CalificarResumen(id, nota) ==
    /\ IF ~ExisteResumen(id)
       THEN /\ resp' = Respuesta("calificar", 404, 0, id, NoKey, FALSE)
            /\ UNCHANGED resumenes
       ELSE /\ resumenes' = [resumenes EXCEPT ![id].calificacion = nota]
            /\ resp' = RespuestaCon("calificar", 200, 0, id, NoKey, TRUE, nota, <<>>)
    /\ UNCHANGED <<now, estudiantes, users, dispositivos, practicas, datos, sesiones, configs, peticiones>>

(* ----------------------------- deletion ------------------------------- *)
\* the tables after the practices with id in P and the students with id in E
\* are deleted: on_delete=CASCADE takes their readings, summaries and RA
\* sessions with them
PracticasSin(P) ==
    [i \in DOMAIN practicas |-> IF i \in P THEN PracticaEliminada ELSE practicas[i]]

DatosSin(P) ==
    [i \in DOMAIN datos |-> IF datos[i].practica \in P THEN DatoEliminado ELSE datos[i]]

ResumenesSin(P) ==
    [i \in DOMAIN resumenes |->
        IF resumenes[i].practica \in P THEN ResumenEliminado ELSE resumenes[i]]

SesionesSin(P, E) ==
    [i \in DOMAIN sesiones |->
        IF sesiones[i].practica \in P \/ sesiones[i].estudiante \in E
        THEN SesionEliminada ELSE sesiones[i]]

\* ModelViewSet.destroy of PracticaActivaViewSet: DELETE /api/placa/practicas/{id}/
EliminarPractica(id) ==
    /\ IF ~ExistePractica(id)
       THEN /\ resp' = Respuesta("eliminar_practica", 404, 0, id, NoKey, FALSE)
            /\ UNCHANGED <<practicas, datos, resumenes, sesiones>>
       ELSE /\ practicas' = PracticasSin({id})
            /\ datos' = DatosSin({id})
            /\ resumenes' = ResumenesSin({id})
            /\ sesiones' = SesionesSin({id}, {})
            /\ resp' = Respuesta("eliminar_practica", 204, 0, id, NoKey, TRUE)
    /\ UNCHANGED <<now, estudiantes, users, dispositivos, configs, peticiones>>

\* ModelViewSet.destroy of EstudianteViewSet: DELETE /api/estudiantes/{id}/ ;
\* the User row stays
EliminarEstudiante(id) ==
    LET P == {i \in DOMAIN practicas : practicas[i].estudiante = id} IN
    /\ IF ~ExisteEstudiante(id)
       THEN /\ resp' = Respuesta("eliminar_estudiante", 404, 0, id, NoKey, FALSE)
            /\ UNCHANGED <<estudiantes, practicas, datos, resumenes, sesiones, configs>>
       ELSE /\ estudiantes' = [estudiantes EXCEPT ![id] = EstudianteEliminado]
            /\ practicas' = PracticasSin(P)
            /\ datos' = DatosSin(P)
            /\ resumenes' = ResumenesSin(P)
            /\ sesiones' = SesionesSin(P, {id})
            /\ configs' = configs \ {id}
            /\ resp' = Respuesta("eliminar_estudiante", 204, 0, id, NoKey, TRUE)
    /\ UNCHANGED <<now, users, dispositivos, peticiones>>

(* ------------------------- specification ------------------------------ *)
\* the bounds of a run: table sizes and the accumulated duration
Acotado(maxPracticas, maxDatos) ==
    /\ Len(estudiantes) <= MaxEstudiantes
    /\ Len(dispositivos) <= MaxDispositivos
    /\ Len(practicas) <= maxPracticas
    /\ Len(datos) <= maxDatos
    /\ \A i \in DOMAIN practicas : practicas[i].duracion_total_segundos <= MaxDuracion
    /\ Len(sesiones) <= MaxSesiones
    /\ \A i \in DOMAIN sesiones :
          /\ sesiones[i].eventos <= MaxEventos
          /\ sesiones[i].total_datos_recibidos <= MaxEnviados
          /\ sesiones[i].muestras <= MaxMuestras
    /\ Len(resumenes) <= MaxPracticas

KeyInputs == Keys \cup {NoKey, MaxKeys + 1}

\* the device-facing API: registry, authentication, admission of readings
Next ==
    \/ \E d \in PasosPractica : Avanzar(d, MaxNowPlaca)
    \/ \E c \in Codigos, m \in Correos : CrearEstudiante(c, m)
    \/ \E m \in MacInputs, n \in Nombres, ip \in Ips :
          RegistrarDispositivo(m, n, ip) /\ Acotado(MaxPracticas, MaxDatosRegistro)'
    \/ \E e \in 0..MaxEstudiantes, d \in 0..MaxDispositivos :
          CrearPractica(e, d) /\ Acotado(MaxPracticas, MaxDatosRegistro)'
    \/ \E k \in KeyInputs, ip \in Ips : Ping(k, ip)
    \/ \E k \in KeyInputs, ip \in Ips : ObtenerPracticaActiva(k, ip)
    \/ \E k \in KeyInputs, ip \in Ips, v \in BOOLEAN :
          EnviarDatosSensores(k, ip, v, 10, 50) /\ Acotado(MaxPracticas, MaxDatosRegistro)'
    \/ \E k \in KeyInputs, ip \in Ips : EstadoSistema(k, ip)
    \/ \E id \in 1..MaxDispositivos, a \in BOOLEAN : CambiarActivo(id, a)

Spec == Init /\ [][Next]_vars

\* sensor ingestion: one device, its practices moved through every estado,
\* readings on and around the thresholds
NextDatos ==
    \/ \E c \in Codigos, m \in Correos : CrearEstudiante(c, m)
    \/ RegistrarDispositivo(<<"a", "1">>, NombrePorDefecto, "10.0.0.1")
          /\ Acotado(MaxPracticas, MaxDatos)'
    \/ \E e \in 0..MaxEstudiantes, d \in 0..1 :
          CrearPractica(e, d) /\ Acotado(MaxPracticas, MaxDatos)'
    \/ \E id \in 1..MaxPracticas, e \in EstadoInputs : PartialUpdate(id, e)
    \/ \E k \in KeyInputs, v \in BOOLEAN, l \in Lecturas :
          EnviarDatosSensores(k, "10.0.0.1", v, l[1], l[2])
             /\ Acotado(MaxPracticas, MaxDatos)'
    \/ \E k \in KeyInputs : ObtenerPracticaActiva(k, "10.0.0.1")

SpecDatos == Init /\ [][NextDatos]_vars

\* the practice state machine: one student, one device, the PATCH endpoint
\* and the model methods, under a half-second clock
NextPractica ==
    \/ \E d \in PasosPractica : Avanzar(d, MaxNow)
    \/ \E c \in Codigos, m \in Correos : CrearEstudiante(c, m)
    \/ RegistrarDispositivo(<<"a", "1">>, NombrePorDefecto, "10.0.0.1")
          /\ Acotado(MaxPracticas, 0)'
    \/ \E e \in 0..MaxEstudiantes, d \in 0..1 :
          CrearPractica(e, d) /\ Acotado(MaxPracticas, 0)'
    \/ \E id \in 1..MaxPracticas, e \in EstadoInputs :
          PartialUpdate(id, e) /\ Acotado(MaxPracticas, 0)'
    \/ \E id \in 1..MaxPracticas : LlamarPausar(id) /\ Acotado(MaxPracticas, 0)'
    \/ \E id \in 1..MaxPracticas : LlamarReanudar(id)
    \/ \E id \in 1..MaxPracticas : LlamarFinalizar(id) /\ Acotado(MaxPracticas, 0)'

SpecPractica == Init /\ [][NextPractica]_vars

TokenInputs == Tokens \cup {NoKey, MaxTokens + 1}

\* the RA client API under a fifteen-second clock: the student, the device and
\* the practice and its reading are set up before the clock first advances,
\* RA requests arrive at any time
NextRA ==
    \/ \E d \in PasosRA : Avanzar(d, MaxNowRA)
    \/ \E c \in Codigos, m \in Correos : now = 0 /\ CrearEstudiante(c, m)
    \/ /\ now = 0
       /\ RegistrarDispositivo(<<"a", "1">>, NombrePorDefecto, "10.0.0.1")
       /\ Acotado(MaxPracticas, MaxDatosRegistro)'
    \/ now = 0 /\ CrearPractica(1, 1) /\ Acotado(MaxPracticas, MaxDatosRegistro)'
    \/ \E k \in Keys :
          /\ now = 0
          /\ EnviarDatosSensores(k, "10.0.0.1", TRUE, 10, 50)
          /\ Acotado(MaxPracticas, MaxDatosRegistro)'
    \/ \E e \in 0..MaxEstudiantes, p \in 0..MaxPracticas :
          ConectarRA(e, p) /\ Acotado(MaxPracticas, MaxDatosRegistro)'
    \/ \E t \in TokenInputs, l \in {1, 10} :
          StreamDatosRA(t, l) /\ Acotado(MaxPracticas, MaxDatosRegistro)'
    \/ \E t \in TokenInputs : EstadoPracticaRA(t)
    \/ \E t \in TokenInputs :
          RegistrarEventoRA(t) /\ Acotado(MaxPracticas, MaxDatosRegistro)'
    \/ \E t \in TokenInputs : HeartbeatRA(t, Null)
    \/ \E t \in TokenInputs :
          DesconectarRA(t) /\ Acotado(MaxPracticas, MaxDatosRegistro)'

SpecRA == Init /\ [][NextRA]_vars

\* client latencies a heartbeat reports: none, zero, and two samples
Latencias == {Null, 0, 50, 100}

\* the heartbeat of one RA session under the fifteen-second clock
NextLatencia ==
    \/ \E d \in PasosRA : Avanzar(d, MaxNowRA)
    \/ \E c \in Codigos, m \in Correos : CrearEstudiante(c, m)
    \/ \E e \in 0..MaxEstudiantes :
          ConectarRA(e, 0) /\ Acotado(MaxPracticas, MaxDatosRegistro)'
    \/ \E t \in TokenInputs, l \in Latencias :
          HeartbeatRA(t, l) /\ Acotado(MaxPracticas, MaxDatosRegistro)'
    \/ \E t \in TokenInputs : EstadoPracticaRA(t)

SpecLatencia == Init /\ [][NextLatencia]_vars

\* the limit parameter of a poll: absent, negative, zero, and around the cap
LimitInputs == {Null, -2, 101}

\* the bounds of a run of the live feed: the readings of the practice, the
\* ones stored after the clock first advanced, one session and its counter
AcotadoStream ==
    /\ Len(datos) <= MaxDatosStream
    /\ Cardinality({i \in DOMAIN datos : datos[i].timestamp > 0}) <= MaxRecientes
    /\ Len(sesiones) <= MaxSesiones
    /\ \A i \in DOMAIN sesiones : sesiones[i].total_datos_recibidos <= MaxEnviadosStream

\* the live feed: a practice receives its readings, then an RA session is
\* opened on it and polls with every limit; the device is silent while the
\* session is open, and the random keys and tokens are named in the order
\* they are drawn
NextStream ==
    \/ \E d \in PasosRA : Avanzar(d, MaxNowStream)
    \/ \E c \in Codigos, m \in Correos : now = 0 /\ CrearEstudiante(c, m)
    \/ /\ now = 0
       /\ RegistrarDispositivo(<<"a", "1">>, NombrePorDefecto, "10.0.0.1")
       /\ \A i \in DOMAIN dispositivos' : dispositivos'[i].api_key = i
    \/ now = 0 /\ CrearPractica(1, 1) /\ Len(practicas') <= MaxPracticas
    \/ \E k \in Keys :
          /\ sesiones = <<>>
          /\ EnviarDatosSensores(k, "10.0.0.1", TRUE, 10, 50)
          /\ AcotadoStream'
    \/ \E p \in 0..MaxPracticas :
          /\ ConectarRA(1, p)
          /\ AcotadoStream'
          /\ \A i \in DOMAIN sesiones' : sesiones'[i].session_token = i
    \/ \E t \in TokenInputs, l \in LimitInputs : StreamDatosRA(t, l) /\ AcotadoStream'

SpecStream == Init /\ [][NextStream]_vars

\* the history of a practice: a practice with its readings, its summary and
\* its RA session, under every request of the practices and students
\* endpoints, DELETE included
NextHistorial ==
    \/ \E c \in Codigos, m \in Correos : CrearEstudiante(c, m)
    \/ RegistrarDispositivo(<<"a", "1">>, NombrePorDefecto, "10.0.0.1")
          /\ Acotado(MaxPracticas, MaxDatos)'
    \/ \E e \in 0..MaxEstudiantes, d \in 0..1 :
          CrearPractica(e, d) /\ Acotado(MaxPracticas, MaxDatos)'
    \/ \E id \in 1..MaxPracticas, e \in EstadoInputs : PartialUpdate(id, e)
    \/ \E k \in Keys :
          EnviarDatosSensores(k, "10.0.0.1", TRUE, 10, 50) /\ Acotado(MaxPracticas, MaxDatos)'
    \/ \E id \in 1..MaxPracticas : CrearResumen(id, TRUE)
    \/ \E e \in 1..MaxEstudiantes, p \in 0..MaxPracticas :
          ConectarRA(e, p) /\ Acotado(MaxPracticas, MaxDatos)'
    \/ \E id \in 1..MaxPracticas : EliminarPractica(id)
    \/ \E id \in 1..MaxEstudiantes : EliminarEstudiante(id)

SpecHistorial == Init /\ [][NextHistorial]_vars

\* the practices endpoint alone: students and devices are registered,
\* practices are created and moved through their estados by PATCH
NextActivas ==
    \/ \E c \in Codigos, m \in Correos : CrearEstudiante(c, m)
    \/ \E m \in MacInputs :
          RegistrarDispositivo(m, NombrePorDefecto, "10.0.0.1")
             /\ Acotado(MaxPracticasActivas, 0)'
    \/ \E e \in 0..MaxEstudiantes, d \in 0..MaxDispositivos :
          CrearPractica(e, d) /\ Acotado(MaxPracticasActivas, 0)'
    \/ \E id \in 1..MaxPracticasActivas, e \in EstadoInputs : PartialUpdate(id, e)

SpecActivas == Init /\ [][NextActivas]_vars

\* the elapsed time of one practice, moved through its states under the
\* half-second clock and read by the three endpoints that report it; the
\* student and the device exist before the clock first advances, and keys and
\* tokens are named in the order they are drawn
NextTiempo ==
    \/ \E d \in PasosPractica : Avanzar(d, MaxNow)
    \/ \E c \in Codigos, m \in Correos : now = 0 /\ CrearEstudiante(c, m)
    \/ /\ now = 0
       /\ RegistrarDispositivo(<<"a", "1">>, NombrePorDefecto, "10.0.0.1")
       /\ \A i \in DOMAIN dispositivos' : dispositivos'[i].api_key = i
    \/ CrearPractica(1, 1) /\ Acotado(MaxPracticas, 0)'
    \/ \E id \in 1..MaxPracticas, e \in EstadoInputs \ {"otro"} :
          PartialUpdate(id, e) /\ Acotado(MaxPracticas, 0)'
    \/ /\ ConectarRA(1, 1)
       /\ Acotado(MaxPracticas, 0)'
       /\ \A i \in DOMAIN sesiones' : sesiones'[i].session_token = i
    \/ EstadoPracticaRA(1)
    \/ \E id \in 0..MaxPracticas : MetricasTiempoReal(id)
    \/ \E id \in 1..MaxPracticas : RetrievePractica(id)

SpecTiempo == Init /\ [][NextTiempo]_vars

\* readings of concurrent requests: one inside the ranges, one outside
LecturasConcurrentes == {<<10, 50>>, <<9, 50>>}

\* requests in flight on one practice: two workers, each handling one pause,
\* finish or reading, under the half-second clock; the student, the device
\* and the practice exist before the clock first advances
NextConcurrente ==
    \/ \E d \in PasosPractica : Avanzar(d, MaxNow)
    \/ \E c \in Codigos, m \in Correos : now = 0 /\ CrearEstudiante(c, m)
    \/ /\ now = 0
       /\ RegistrarDispositivo(<<"a", "1">>, NombrePorDefecto, "10.0.0.1")
       /\ \A i \in DOMAIN dispositivos' : dispositivos'[i].api_key = i
    \/ now = 0 /\ CrearPractica(1, 1) /\ Acotado(MaxPracticas, MaxDatos)'
    \/ \E r \in 1..MaxPeticiones, id \in 1..MaxPracticas, e \in {"pausada", "finalizada"} :
          PatchCargar(r, id, e)
    \/ \E r \in 1..MaxPeticiones : PatchGuardar(r) /\ Acotado(MaxPracticas, MaxDatos)'
    \/ \E r \in 1..MaxPeticiones, k \in Keys : DatosCargar(r, k, "10.0.0.1")
    \/ \E r \in 1..MaxPeticiones, v \in BOOLEAN, l \in LecturasConcurrentes :
          DatosCrear(r, v, l[1], l[2]) /\ Acotado(MaxPracticas, MaxDatos)'

SpecConcurrente == Init /\ [][NextConcurrente]_vars

\* what a device is told and what it may send: one device with up to two
\* practices moved through their estados, asking for its practice and
\* sending readings
NextConsulta ==
    \/ \E d \in PasosPractica : Avanzar(d, MaxNowPlaca)
    \/ \E c \in Codigos, m \in Correos : now = 0 /\ CrearEstudiante(c, m)
    \/ /\ now = 0
       /\ RegistrarDispositivo(<<"a", "1">>, NombrePorDefecto, "10.0.0.1")
       /\ \A i \in DOMAIN dispositivos' : dispositivos'[i].api_key = i
    \/ CrearPractica(1, 1) /\ Acotado(MaxPracticasActivas, MaxDatosRegistro)'
    \/ \E id \in 1..MaxPracticasActivas, e \in EstadoInputs \ {"otro"} :
          PartialUpdate(id, e)
    \/ \E k \in {NoKey, 1} : ObtenerPracticaActiva(k, "10.0.0.1")
    \/ EnviarDatosSensores(1, "10.0.0.1", TRUE, 10, 50)
          /\ Acotado(MaxPracticasActivas, MaxDatosRegistro)'

SpecConsulta == Init /\ [][NextConsulta]_vars

\* the RA sessions of one student: connections one after another and every
\* RA request made with the token of any of them, under the fifteen-second
\* clock; tokens are named in the order they are drawn
NextSesiones ==
    \/ \E d \in PasosRA : Avanzar(d, MaxNowRA)
    \/ \E c \in Codigos, m \in Correos : now = 0 /\ CrearEstudiante(c, m)
    \/ \E e \in 0..MaxEstudiantes :
          /\ ConectarRA(e, 0)
          /\ Len(sesiones') <= MaxSesionesRA
          /\ \A i \in DOMAIN sesiones' : sesiones'[i].session_token = i
    \/ \E t \in 0..MaxSesionesRA : StreamDatosRA(t, Null)
    \/ \E t \in 0..MaxSesionesRA : EstadoPracticaRA(t)
    \/ \E t \in 0..MaxSesionesRA :
          /\ RegistrarEventoRA(t)
          /\ \A i \in DOMAIN sesiones' : sesiones'[i].eventos <= MaxEventos
    \/ \E t \in 0..MaxSesionesRA : HeartbeatRA(t, Null)
    \/ \E t \in 0..MaxSesionesRA :
          /\ DesconectarRA(t)
          /\ \A i \in DOMAIN sesiones' : sesiones'[i].eventos <= MaxEventos

SpecSesiones == Init /\ [][NextSesiones]_vars

\* codes and e-mails of the students endpoint
CodigosRegistro == {"E1", "E2"}
CorreosRegistro == {"e1@x.co", "e2@x.co"}

\* the students endpoint: students are created and deleted
NextEstudiantes ==
    \/ \E c \in CodigosRegistro, m \in CorreosRegistro :
          CrearEstudiante(c, m) /\ Len(estudiantes') <= MaxEstudiantesRegistro
    \/ \E id \in 1..MaxEstudiantesRegistro : EliminarEstudiante(id)

SpecEstudiantes == Init /\ [][NextEstudiantes]_vars

\* <<pitch, fuerza>> payloads: on the edge of the optimal ranges, on the edge
\* of the wider bands of the partial credit, outside both, and with the angle
\* alone inside
LecturasEvaluacion == {<<10, 50>>, <<35, 400>>, <<40, 500>>, <<20, 500>>}

\* grades a professor enters, in hundredths
Notas == {450}

\* evaluation: one device, its practices moved through every estado, readings
\* stored while 'iniciada', summaries created, recomputed and graded
NextEvaluacion ==
    \/ \E c \in Codigos, m \in Correos : CrearEstudiante(c, m)
    \/ RegistrarDispositivo(<<"a", "1">>, NombrePorDefecto, "10.0.0.1")
          /\ Acotado(MaxPracticas, MaxDatosEvaluacion)'
    \/ CrearPractica(1, 1) /\ Acotado(MaxPracticas, MaxDatosEvaluacion)'
    \/ \E id \in 1..MaxPracticas, e \in EstadoInputs : PartialUpdate(id, e)
    \/ \E k \in Keys, l \in LecturasEvaluacion :
          EnviarDatosSensores(k, "10.0.0.1", TRUE, l[1], l[2])
             /\ Acotado(MaxPracticas, MaxDatosEvaluacion)'
    \/ \E id \in 0..MaxPracticas, c \in BOOLEAN : CrearResumen(id, c)
    \/ \E id \in 1..MaxPracticas : Recalcular(id)
    \/ \E id \in 1..MaxPracticas, n \in Notas : CalificarResumen(id, n)

SpecEvaluacion == Init /\ [][NextEvaluacion]_vars

(* ------------------- practice state machine: claims ------------------- *)
\* C1: 'finalizada' is terminal: once a practice is 'finalizada', no step
\* (pausar, reanudar, finalizar, PATCH of estado) changes its estado.
C1_FinalizadaTerminal ==
    [][\A id \in DOMAIN practicas :
          practicas[id].estado = "finalizada" => practicas'[id].estado = "finalizada"]_vars

\* C2: duracion_total_segundos never decreases, and it changes only in a
\* step that takes the practice from 'iniciada' to 'pausada' or 'finalizada'
\* (so never while the practice stays 'iniciada').
C2_DuracionMonotona ==
    [][\A id \in DOMAIN practicas :
          LET p == practicas[id]
              q == practicas'[id]
          IN /\ q.duracion_total_segundos >= p.duracion_total_segundos
             /\ q.duracion_total_segundos # p.duracion_total_segundos
                   => /\ p.estado = "iniciada"
                      /\ q.estado \in {"pausada", "finalizada"}]_vars

\* a resumed practice that carries time accumulated by an earlier pause
C2_Witness ==
    \E id \in DOMAIN practicas :
        /\ practicas[id].estado = "iniciada"
        /\ practicas[id].fecha_reanudacion # Null
        /\ practicas[id].duracion_total_segundos > 0

\* C3: a finish request on a practice that is already 'finalizada' leaves
\* duracion_total_segundos, fecha_fin and estado as they were, and a finish
\* of a 'pausada' practice leaves duracion_total_segundos as it was.
C3_FinalizarIdempotente ==
    [][resp'.op \in {"finalizar", "patch_finalizada"} =>
          LET p == practicas[resp'.obj]
              q == practicas'[resp'.obj]
          IN /\ p.estado = "finalizada" =>
                   /\ q.duracion_total_segundos = p.duracion_total_segundos
                   /\ q.fecha_fin = p.fecha_fin
                   /\ q.estado = p.estado
             /\ p.estado = "pausada" =>
                   /\ q.duracion_total_segundos = p.duracion_total_segundos
                   /\ q.estado = "finalizada"]_vars

\* a finish request answered later than the finish that closed the practice,
\* which had accumulated time
C3_Witness ==
    /\ resp.op \in {"finalizar", "patch_finalizada"}
    /\ practicas[resp.obj].estado = "finalizada"
    /\ practicas[resp.obj].fecha_fin < now
    /\ practicas[resp.obj].duracion_total_segundos > 0

\* C5: a pause request (pausar, PATCH estado='pausada') on a practice that is
\* 'pausada' or 'finalizada' leaves estado, fecha_pausa and
\* duracion_total_segundos unchanged; from 'iniciada' it moves the practice
\* to 'pausada' and records fecha_pausa.
C5_PausaSoloDesdeIniciada ==
    [][resp'.op \in {"pausar", "patch_pausada"} =>
          LET p == practicas[resp'.obj]
              q == practicas'[resp'.obj]
          IN /\ p.estado \in {"pausada", "finalizada"} =>
                   /\ q.estado = p.estado
                   /\ q.fecha_pausa = p.fecha_pausa
                   /\ q.duracion_total_segundos = p.duracion_total_segundos
             /\ p.estado = "iniciada" =>
                   /\ q.estado = "pausada"
                   /\ q.fecha_pausa = now]_vars

\* C6: a resume request (reanudar, PATCH estado='iniciada') moves a 'pausada'
\* practice to 'iniciada' and records fecha_reanudacion; on a practice that is
\* 'iniciada' or 'finalizada' it changes neither estado nor fecha_reanudacion.
C6_ReanudarSoloDesdePausada ==
    [][resp'.op \in {"reanudar", "patch_iniciada"} =>
          LET p == practicas[resp'.obj]
              q == practicas'[resp'.obj]
          IN /\ p.estado = "pausada" =>
                   /\ q.estado = "iniciada"
                   /\ q.fecha_reanudacion = now
             /\ p.estado \in {"iniciada", "finalizada"} =>
                   /\ q.estado = p.estado
                   /\ q.fecha_reanudacion = p.fecha_reanudacion]_vars

(* ----------------------- sensor ingestion: claims --------------------- *)
\* C4: a reading of an authenticated device is stored only when the device
\* has a practice in 'iniciada', attached to such a practice; when it has
\* none (no practice, or only 'pausada'/'finalizada' ones) the answer is 400
\* with puede_enviar_datos = false and the stored readings are unchanged.
C4_AdmisionSoloIniciada ==
    [][resp'.op = "datos" /\ resp'.dev # 0 =>
          LET d == resp'.dev
              tiene == \E i \in DOMAIN practicas :
                          /\ practicas[i].dispositivo = d
                          /\ practicas[i].estado = "iniciada"
          IN /\ ~tiene => /\ resp'.status = 400
                          /\ resp'.flag = FALSE
                          /\ datos' = datos
             /\ datos' # datos =>
                   /\ tiene
                   /\ resp'.status = 201
                   /\ SubSeq(datos', 1, Len(datos)) = datos
                   /\ Len(datos') = Len(datos) + 1
                   /\ datos'[Len(datos')].dispositivo = d
                   /\ practicas[datos'[Len(datos')].practica].dispositivo = d
                   /\ practicas[datos'[Len(datos')].practica].estado = "iniciada"]_vars

\* a reading refused for a device whose practice is paused or finished,
\* after an earlier reading of that device was stored
C4_Witness ==
    /\ resp.op = "datos"
    /\ resp.dev # 0
    /\ resp.status = 400
    /\ resp.flag = FALSE
    /\ \E i \in DOMAIN practicas :
          /\ practicas[i].dispositivo = resp.dev
          /\ practicas[i].estado \in {"pausada", "finalizada"}
    /\ \E i \in DOMAIN datos : datos[i].dispositivo = resp.dev

\* C9: every stored reading has tecnica_correcta exactly when its pitch lies
\* in [10, 30] and its force in [50, 300], both bounds inclusive.
C9_TecnicaCorrecta ==
    \A i \in DOMAIN datos :
        datos[i].tecnica_correcta <=>
            (datos[i].angulo_pitch \in 10..30 /\ datos[i].fuerza \in 50..300)

\* stored readings on the inclusive upper thresholds and just outside them
C9_Witness ==
    /\ \E i \in DOMAIN datos :
          /\ datos[i].angulo_pitch = 30
          /\ datos[i].fuerza = 300
          /\ datos[i].tecnica_correcta
    /\ \E i \in DOMAIN datos :
          /\ datos[i].angulo_pitch = 31
          /\ ~datos[i].tecnica_correcta

(* ------------------------ device registry: claims --------------------- *)
\* two hardware addresses are the same address when they differ in letter
\* case only
MismaDireccion(a, b) ==
    /\ Len(a) = Len(b)
    /\ \A k \in DOMAIN a :
          \/ a[k] = b[k]
          \/ {a[k], b[k]} \in {{"a", "A"}, {"b", "B"}}

\* no two devices hold the same hardware address, in any letter case
UnicoPorDireccion ==
    \A i, j \in DOMAIN dispositivos :
        MismaDireccion(dispositivos[i].mac_address, dispositivos[j].mac_address) => i = j

\* C7: registration is idempotent: an address (in any letter case, with any
\* nombre) names at most one device; a request for an address already
\* registered answers 200 with that device's api_key and creates nothing, a
\* request for a new address answers 201 with the key of the one device it
\* creates.
C7_RegistroIdempotente ==
    [][/\ UnicoPorDireccion'
       /\ resp'.op = "registrar" /\ resp'.status # 400 =>
             LET id == resp'.obj
                 antes == {i \in DOMAIN dispositivos :
                              MismaDireccion(dispositivos[i].mac_address,
                                             dispositivos'[id].mac_address)}
             IN /\ resp'.key = dispositivos'[id].api_key
                /\ antes # {} => /\ resp'.status = 200
                                 /\ dispositivos' = dispositivos
                                 /\ antes = {id}
                                 /\ resp'.key = dispositivos[id].api_key
                /\ antes = {} => /\ resp'.status = 201
                                 /\ Len(dispositivos') = Len(dispositivos) + 1
                                 /\ id = Len(dispositivos')]_vars

\* a second registration of an address answered 200 while another device
\* exists and the device has been used in between
C7_Witness ==
    /\ resp.op = "registrar"
    /\ resp.status = 200
    /\ Len(dispositivos) = 2
    /\ dispositivos[resp.obj].ultima_conexion # Null
    /\ resp.key = dispositivos[resp.obj].api_key

\* C8: a device's api_key is set when the device is created and never
\* changes afterwards, and distinct devices hold distinct keys.
C8_ApiKeyInmutable ==
    [][/\ \A i \in DOMAIN dispositivos :
             dispositivos'[i].api_key = dispositivos[i].api_key
       /\ \A i \in DOMAIN dispositivos' : dispositivos'[i].api_key # NoKey
       /\ \A i, j \in DOMAIN dispositivos' :
             dispositivos'[i].api_key = dispositivos'[j].api_key => i = j]_vars

\* two devices that have both authenticated, one of them having sent a
\* reading that was stored
C8_Witness ==
    /\ Len(dispositivos) = 2
    /\ \A i \in DOMAIN dispositivos : dispositivos[i].ultima_conexion # Null
    /\ dispositivos[1].api_key # dispositivos[2].api_key
    /\ Len(datos) > 0

(* -------------------------- RA sessions: claims ----------------------- *)
\* a session is alive while its estado is 'activa' or 'pausada' and its last
\* activity is less than 30 seconds old
Viva(s) ==
    /\ s.estado \in {"activa", "pausada"}
    /\ (now - s.fecha_ultima_actividad) < 30 * TicksPerSecond

\* C10: a request made with the token of a session that is not alive (last
\* activity 30 seconds old or more, or estado not 'activa'/'pausada') is
\* rejected and leaves the session as it was, for stream, estado-practica,
\* eventos/registrar and heartbeat alike.
C10_SesionExpiradaRechazada ==
    [][/\ resp'.op \in {"stream", "estado_practica", "evento", "heartbeat"}
       /\ resp'.obj \in DOMAIN sesiones
       /\ ~Viva(sesiones[resp'.obj])
       => /\ resp'.status \notin {200, 201}
          /\ sesiones' = sesiones]_vars

\* C11: a heartbeat that reports a client latency Lnew on a session whose
\* stored average is L0 stores 0.8*L0 + 0.2*Lnew = (4*L0 + Lnew)/5, except
\* that the first sample the session ever reports is stored as it is; a
\* heartbeat without a latency leaves the average unchanged.
C11_LatenciaSuavizada ==
    [][resp'.op = "heartbeat" /\ resp'.status = 200 =>
          LET s == sesiones[resp'.obj]
              q == sesiones'[resp'.obj]
              L0 == s.latencia_promedio
              L1 == q.latencia_promedio
              Lnew == resp'.arg
          IN IF Lnew = Null THEN L1 = L0
             ELSE IF s.muestras = 0 THEN L1[1] = Lnew * L1[2]
             ELSE L1[1] * 5 * L0[2] = (4 * L0[1] + Lnew * L0[2]) * L1[2]]_vars

(* ------------------------- evaluation: claims -------------------------- *)
\* a step that ran calcular_estadisticas and calcular_calificacion_automatica
\* on the summary resp'.obj: a create with calcular_automatico, or recalcular
PasoDeCalculo ==
    \/ resp'.op = "crear_resumen" /\ resp'.status = 201 /\ resp'.flag
    \/ resp'.op = "recalcular" /\ resp'.status = 200

\* the readings of the practice of summary r
LecturasDe(r) == {i \in DOMAIN datos : datos[i].practica = r.practica}

\* the count, the accuracy and the criteria of r are those of the readings S
EstadisticasDe(r, S) ==
    LET N == Cardinality(S)
        correctas == Cardinality({i \in S : datos[i].tecnica_correcta})
    IN /\ r.total_datos_capturados = N
       /\ r.precision_porcentaje[1] * N = correctas * 100 * r.precision_porcentaje[2]
       /\ r.angulo_adecuado <=> (10 * N <= Suma(S, "angulo_pitch") /\
                                 Suma(S, "angulo_pitch") <= 30 * N)
       /\ r.presion_controlada <=> (50 * N <= Suma(S, "fuerza") /\
                                    Suma(S, "fuerza") <= 300 * N)
       /\ r.tecnica_correcta <=> (r.angulo_adecuado /\ r.presion_controlada)

PuntosEsperados(suma, N, lo, hi, loParcial, hiParcial) ==
    IF lo * N <= suma /\ suma <= hi * N THEN 15
    ELSE IF loParcial * N <= suma /\ suma <= hiParcial * N THEN 10
    ELSE 0

\* g hundredths is n/d rounded to two decimals: no hundredth is nearer
Redondeo(g, n, d) ==
    /\ 2 * (g * d - 100 * n) <= d
    /\ 2 * (100 * n - g * d) <= d

\* the grade of r is the weighted sum over the readings S, rounded
CalificacionDe(r, S) ==
    LET N == Cardinality(S)
        a == PuntosEsperados(Suma(S, "angulo_pitch"), N, 10, 30, 5, 35)
        p == PuntosEsperados(Suma(S, "fuerza"), N, 50, 300, 30, 400)
        pn == r.precision_porcentaje[1]
        pd == r.precision_porcentaje[2]
    IN /\ Redondeo(r.calificacion, 20 * pn + (a + p) * 100 * pd, 1000 * pd)
       /\ r.calificacion >= 0
       /\ r.calificacion <= 500

\* C13: for a summary with at least one reading the stored grade is
\* round(2.0*precision_porcentaje/100 + A + P, 2), A and P being 1.5 for a
\* criterion that holds, 1.0 for a mean inside the wider band ([5,35] for
\* pitch, [30,400] for force) and 0 otherwise; it lies in [0, 5.0].
C13_Calificacion ==
    [][PasoDeCalculo =>
          LET r == resumenes'[resp'.obj] IN
          LecturasDe(r) # {} => CalificacionDe(r, LecturasDe(r))]_vars

\* a computed grade that needed rounding (2/3 + 1.5 + 1.0 stored as 3.17),
\* with full credit for the angle and partial credit for the pressure
C13_Witness ==
    /\ resp.op \in {"crear_resumen", "recalcular"}
    /\ resp.status \in {200, 201}
    /\ resp.flag
    /\ LET r == resumenes[resp.obj] IN
          /\ r.total_datos_capturados = 3
          /\ r.precision_porcentaje[2] = 3
          /\ r.angulo_adecuado
          /\ ~r.presion_controlada
          /\ EntreFrac(r.fuerza_promedio, 30, 400)
          /\ r.calificacion = 317

\* the stored aggregates, criteria and grade of r are the ones the readings
\* of its practice determine
Calculado(r) ==
    LET S == LecturasDe(r) IN
    /\ S # {}
    /\ EstadisticasDe(r, S)
    /\ r.inclinacion_promedio[2] # 0
    /\ r.inclinacion_promedio[1] * Cardinality(S) =
          Suma(S, "angulo_pitch") * r.inclinacion_promedio[2]
    /\ r.fuerza_promedio[2] # 0
    /\ r.fuerza_promedio[1] * Cardinality(S) = Suma(S, "fuerza") * r.fuerza_promedio[2]
    /\ \A i \in S : datos[i].fuerza <= r.fuerza_maxima
    /\ \A i \in S : datos[i].fuerza >= r.fuerza_minima
    /\ \E i \in S : datos[i].fuerza = r.fuerza_maxima
    /\ \E i \in S : datos[i].fuerza = r.fuerza_minima
    /\ r.calificacion # Null
    /\ CalificacionDe(r, S)

\* the aggregates, the criteria and the grade a summary stores
Agregados(r) ==
    <<r.total_datos_capturados, r.inclinacion_promedio, r.fuerza_promedio,
      r.fuerza_maxima, r.fuerza_minima, r.precision_porcentaje,
      r.angulo_adecuado, r.presion_controlada, r.tecnica_correcta, r.calificacion>>

\* C14: recomputation is idempotent: a computation (at creation or by
\* recalcular) stores the values the readings determine, so every
\* computation over the same readings stores the same values, and recalcular
\* on a summary that already holds them, or whose practice has no readings and
\* was never computed, changes none of them.
C14_RecalcularIdempotente ==
    [][/\ PasoDeCalculo =>
             LET r == resumenes'[resp'.obj] IN
             LecturasDe(r) # {} => Calculado(r)
       /\ resp'.op = "recalcular" /\ resp'.status = 200 =>
             LET r == resumenes[resp'.obj] IN
             (Calculado(r) \/ (LecturasDe(r) = {} /\ r.total_datos_capturados = 0))
                => /\ Agregados(resumenes'[resp'.obj]) = Agregados(r)
                   /\ \A i \in DOMAIN resumenes :
                         i # resp'.obj => resumenes'[i] = resumenes[i]]_vars

\* a recalcular answered for a finished practice with two readings or more,
\* whose summary holds the computed grade
C14_Witness ==
    /\ resp.op = "recalcular"
    /\ resp.status = 200
    /\ LET r == resumenes[resp.obj] IN
          /\ practicas[r.practica].estado = "finalizada"
          /\ r.total_datos_capturados >= 2
          /\ r.calificacion \notin {Null, 0, 500}
          /\ r.calificacion \notin Notas

\* C15: every summary refers to a practice that is 'finalizada', a practice
\* has at most one summary, and a create-summary request for a practice that
\* is not 'finalizada' or already has a summary is rejected and creates
\* nothing.
C15_ResumenUnoAUno ==
    [][/\ \A i \in DOMAIN resumenes' :
             practicas'[resumenes'[i].practica].estado = "finalizada"
       /\ \A i, j \in DOMAIN resumenes' :
             resumenes'[i].practica = resumenes'[j].practica => i = j
       /\ (/\ resp'.op = "crear_resumen"
           /\ resp'.arg \in DOMAIN practicas
           /\ \/ practicas[resp'.arg].estado # "finalizada"
              \/ \E i \in DOMAIN resumenes : resumenes[i].practica = resp'.arg)
          => /\ resp'.status = 400
             /\ resumenes' = resumenes]_vars

\* every stored reading of practice id lies inside both optimal ranges, and
\* there is one at least
TodasEnRango(id) ==
    /\ \E i \in DOMAIN datos : datos[i].practica = id
    /\ \A i \in DOMAIN datos :
          datos[i].practica = id =>
             /\ datos[i].angulo_pitch \in 10..30
             /\ datos[i].fuerza \in 50..300

C17_SinCredencial401 ==
    [][/\ resp'.op \in {"ping", "practica_activa", "datos", "estado"}
       /\ \/ resp'.arg = NoKey
          \/ \A i \in DOMAIN dispositivos : dispositivos[i].api_key # resp'.arg
          \/ \E i \in DOMAIN dispositivos :
                dispositivos[i].api_key = resp'.arg /\ ~dispositivos[i].activo
       => /\ resp'.status = 401
          /\ dispositivos' = dispositivos
          /\ datos' = datos
          /\ practicas' = practicas]_vars

\* a reading refused with 401 for the key of a device that was deactivated
\* after it had authenticated, while it has a practice in 'iniciada'
C17_Witness ==
    /\ resp.op = "datos"
    /\ resp.status = 401
    /\ \E i \in DOMAIN dispositivos :
          /\ dispositivos[i].api_key = resp.arg
          /\ ~dispositivos[i].activo
          /\ dispositivos[i].ultima_conexion # Null
          /\ \E p \in DOMAIN practicas :
                practicas[p].dispositivo = i /\ practicas[p].estado = "iniciada"

(* --------------------------- live feed: claims ------------------------- *)
\* C18: a poll of the live feed returns at most min(limit, 100) readings (10
\* when no limit is given, none for a limit below zero), never more than 100;
\* they belong to the session's practice, no reading is returned twice, they
\* come in descending timestamp order, and no reading of the practice left
\* out is more recent than one returned.
C18_StreamAcotado ==
    [][resp'.op = "stream" =>
          LET body == resp'.body
              limit == IF resp'.arg = Null THEN 10 ELSE resp'.arg
              tope == IF limit > 100 THEN 100 ELSE IF limit < 0 THEN 0 ELSE limit
              devueltos == {body[j] : j \in DOMAIN body}
          IN /\ Len(body) <= tope
             /\ Len(body) <= 100
             /\ Cardinality(devueltos) = Len(body)
             /\ resp'.status = 200 /\ resp'.obj \in DOMAIN sesiones =>
                   LET p == sesiones[resp'.obj].practica
                       todos == {i \in DOMAIN datos : datos[i].practica = p}
                   IN /\ devueltos \subseteq todos
                      /\ p # 0 => Len(body) = IF Cardinality(todos) < tope
                                             THEN Cardinality(todos) ELSE tope
                      /\ \A j \in DOMAIN body :
                            j > 1 => datos[body[j]].timestamp <= datos[body[j - 1]].timestamp
                      /\ body # <<>> =>
                            \A i \in todos \ devueltos :
                               datos[i].timestamp <= datos[body[Len(body)]].timestamp]_vars

\* a poll with a limit above the cap on a practice that holds more than 100
\* readings, the latest of them more recent than the others: 100 are returned,
\* the latest first
C18_Witness ==
    /\ resp.op = "stream"
    /\ resp.status = 200
    /\ resp.arg > 100
    /\ Len(resp.body) = 100
    /\ Len(datos) > 100
    /\ datos[resp.body[1]].timestamp > datos[resp.body[2]].timestamp

(* ----------------------- practice history: claims --------------------- *)
\* C19: a practice is never deleted: a practice that exists, and each of its
\* readings, exists after every step, whatever the request, including the
\* requests of the practices endpoint and the deletion of its student.
C19_PracticaNuncaEliminada ==
    [][\A id \in DOMAIN practicas :
          practicas[id].estado # "eliminada" =>
             /\ practicas'[id].estado # "eliminada"
             /\ \A i \in DOMAIN datos :
                   datos[i].practica = id => datos'[i] = datos[i]]_vars

\* C20: only one student is active at a time: at most one practice is in a
\* non-finished estado ('iniciada' or 'pausada'), so no device has two
\* non-finished practices at once.
C20_UnaSolaActiva ==
    Cardinality({id \in DOMAIN practicas :
                    practicas[id].estado \in {"iniciada", "pausada"}}) <= 1

\* C22: calcular_estadisticas stores as fuerza_promedio, fuerza_maxima,
\* fuerza_minima and inclinacion_promedio the arithmetic mean, the maximum and
\* the minimum of the force readings of the practice and the mean of their
\* pitch angles.
C22_PromediosYExtremos ==
    [][PasoDeCalculo /\ LecturasDe(resumenes'[resp'.obj]) # {} =>
          LET r == resumenes'[resp'.obj]
              S == LecturasDe(r)
              N == Cardinality(S)
              fuerzas == {datos[i].fuerza : i \in S}
          IN /\ r.fuerza_promedio[2] > 0
             /\ r.fuerza_promedio[1] * N = Suma(S, "fuerza") * r.fuerza_promedio[2]
             /\ r.inclinacion_promedio[2] > 0
             /\ r.inclinacion_promedio[1] * N =
                   Suma(S, "angulo_pitch") * r.inclinacion_promedio[2]
             /\ r.fuerza_maxima \in fuerzas
             /\ r.fuerza_minima \in fuerzas
             /\ \A f \in fuerzas : r.fuerza_minima <= f /\ f <= r.fuerza_maxima]_vars

\* a computed summary over three readings of two different forces, whose mean
\* force lies strictly between the smallest and the largest and is not whole
C22_Witness ==
    /\ resp.op \in {"crear_resumen", "recalcular"}
    /\ resp.status \in {200, 201}
    /\ resp.flag
    /\ LET r == resumenes[resp.obj] IN
          /\ r.total_datos_capturados = 3
          /\ r.fuerza_minima < r.fuerza_maxima
          /\ r.fuerza_promedio[2] = 3
          /\ r.fuerza_minima * 3 < r.fuerza_promedio[1]
          /\ r.fuerza_promedio[1] < r.fuerza_maxima * 3
          /\ r.inclinacion_promedio[2] = 3

\* C25: immediately after a practice with N > 0 readings becomes
\* 'finalizada' its stored precision_promedio is (the number of its readings
\* with 10 <= pitch <= 30 and 50 <= force <= 300) / N * 100, and a summary
\* computed for the finished practice stores that same value as
\* precision_porcentaje, counted from the readings' tecnica_correcta flags.
C25_PrecisionAlFinalizar ==
    [][/\ \A id \in DOMAIN practicas :
             LET S == {i \in DOMAIN datos' : datos'[i].practica = id}
                 N == Cardinality(S)
                 buenas == Cardinality({i \in S :
                              /\ 10 <= datos'[i].angulo_pitch
                              /\ datos'[i].angulo_pitch <= 30
                              /\ 50 <= datos'[i].fuerza
                              /\ datos'[i].fuerza <= 300})
             IN /\ practicas[id].estado \in {"iniciada", "pausada"}
                /\ practicas'[id].estado = "finalizada"
                /\ N > 0
                => practicas'[id].precision_promedio[1] * N =
                      buenas * 100 * practicas'[id].precision_promedio[2]
       /\ PasoDeCalculo =>
             LET r == resumenes'[resp'.obj] IN
             practicas[r.practica].estado = "finalizada" /\ LecturasDe(r) # {}
                => r.precision_porcentaje = practicas[r.practica].precision_promedio]_vars

\* a summary computed for a finished practice with two readings or more, some
\* of them in range and some not
C25_Witness ==
    /\ resp.op \in {"crear_resumen", "recalcular"}
    /\ resp.status \in {200, 201}
    /\ resp.flag
    /\ LET r == resumenes[resp.obj]
           p == practicas[r.practica]
       IN /\ p.estado = "finalizada"
          /\ Cardinality(DatosDe(r.practica)) >= 2
          /\ p.precision_promedio \notin {<<0, 1>>, <<100, 1>>}
          /\ r.precision_porcentaje = p.precision_promedio

(* --------------------------- duration: claims -------------------------- *)
\* C23: after any sequence of PATCH estado requests the stored
\* duracion_total_segundos is the sum, over every stay of the practice in
\* 'iniciada', of the whole seconds of that stay: a practice starts with 0,
\* every step that takes it out of 'iniciada' adds the whole seconds since it
\* entered 'iniciada', and no other step changes the duration.
C23_DuracionSumaIntervalos ==
    [][\A id \in DOMAIN practicas' :
          IF id \notin DOMAIN practicas
          THEN practicas'[id].duracion_total_segundos = 0
          ELSE LET p == practicas[id]
                   q == practicas'[id]
               IN ExistePractica(id) /\ q.estado # "eliminada" =>
                     IF p.estado = "iniciada" /\ q.estado # "iniciada"
                     THEN q.duracion_total_segundos =
                             p.duracion_total_segundos + TotalSeconds(now, p.entrada)
                     ELSE q.duracion_total_segundos = p.duracion_total_segundos]_vars

\* the practice whose elapsed time the answer resp' reports, or 0
PracticaInformada ==
    IF resp'.status # 200 THEN 0
    ELSE IF resp'.op \in {"retrieve_practica", "metricas_tiempo_real"} THEN resp'.obj
    ELSE IF resp'.op = "estado_practica" THEN sesiones[resp'.obj].practica
    ELSE 0

\* C24: the elapsed time reported for a practice (by the practice serializer,
\* by RA estado-practica and by profesor metricas-tiempo-real) is its
\* duracion_total_segundos when it is 'pausada' or 'finalizada', and that
\* duration plus the whole seconds from fecha_reanudacion (from fecha_inicio
\* if it never resumed) to now when it is 'iniciada'; reporting it changes no
\* stored field of the practice.
C24_TiempoTranscurrido ==
    [][PracticaInformada # 0 =>
          LET p == practicas[PracticaInformada]
              desde == IF p.fecha_reanudacion # Null THEN p.fecha_reanudacion
                       ELSE p.fecha_inicio
          IN /\ p.estado \in {"pausada", "finalizada"} =>
                   resp'.arg = p.duracion_total_segundos
             /\ p.estado = "iniciada" =>
                   /\ (resp'.arg - p.duracion_total_segundos) * TicksPerSecond <= now - desde
                   /\ now - desde < (resp'.arg - p.duracion_total_segundos + 1) * TicksPerSecond
             /\ practicas' = practicas]_vars

\* RA estado-practica reports, for a resumed practice in 'iniciada' with time
\* already accumulated, more than the stored duration
C24_Witness ==
    /\ resp.op = "estado_practica"
    /\ resp.status = 200
    /\ resp.flag
    /\ LET p == practicas[sesiones[resp.obj].practica] IN
          /\ p.estado = "iniciada"
          /\ p.fecha_reanudacion # Null
          /\ p.duracion_total_segundos > 0
          /\ resp.arg > p.duracion_total_segundos

(* ------------------------- concurrency: claims ------------------------- *)
\* the stored fields of a practice row (without the recorded entry instant)
Campos(p) == [p EXCEPT !.entrada = Null]

\* the answered state changes of practice id that wrote the row
Escritoras(id) ==
    {r \in 1..MaxPeticiones : /\ peticiones[r].op = "patch_hecha"
                              /\ peticiones[r].id = id
                              /\ peticiones[r].guarda}

\* the row left by running request a at instant ta and then request b at
\* instant tb, one after the other, on the row fila
UnaTrasOtra(fila, id, a, ta, b, tb) ==
    LET primera == IF TransicionGuarda(fila, a.nuevo_estado)
                   THEN TransicionPatch(fila, id, a.nuevo_estado, ta) ELSE fila
    IN IF TransicionGuarda(primera, b.nuevo_estado)
       THEN TransicionPatch(primera, id, b.nuevo_estado, tb) ELSE primera

\* C26: requests on one practice are unsynchronised read-then-write steps:
\* what a state change stores is the whole row computed from the copy it
\* loaded, whatever other requests stored in between, so the row holds what
\* the last writer computed from its own copy (and an earlier write is lost).
C26_EscrituraDeFilaCompleta ==
    \A id \in DOMAIN practicas :
       Escritoras(id) # {} =>
          LET ultima == CHOOSE r \in Escritoras(id) :
                           \A q \in Escritoras(id) : peticiones[q].turno <= peticiones[r].turno
          IN Campos(practicas[id]) = Campos(peticiones[ultima].escrita)

\* two state changes have loaded the same row of a practice and both have
\* written it, and the stored row is not the one left by running them one
\* after the other, in either order and at any two instants
C26_Witness ==
    \E a, b \in 1..MaxPeticiones :
       /\ a # b
       /\ peticiones[a].op = "patch_hecha"
       /\ peticiones[b].op = "patch_hecha"
       /\ peticiones[a].id = peticiones[b].id
       /\ {a, b} \subseteq Escritoras(peticiones[a].id)
       /\ peticiones[a].copia = peticiones[b].copia
       /\ LET id == peticiones[a].id
              fila == peticiones[a].copia
          IN \A ta, tb \in fila.fecha_inicio..now :
                ta <= tb =>
                   /\ Campos(practicas[id]) #
                         Campos(UnaTrasOtra(fila, id, peticiones[a], ta, peticiones[b], tb))
                   /\ Campos(practicas[id]) #
                         Campos(UnaTrasOtra(fila, id, peticiones[b], ta, peticiones[a], tb))

\* C27: when a finish and a pause of the same practice, each loaded while the
\* practice was 'iniciada', have both completed, the stored estado is
\* 'finalizada' and fecha_fin is set.
C27_FinalizarNoSeSobrescribe ==
    \A a, b \in 1..MaxPeticiones :
       /\ peticiones[a].op = "patch_hecha"
       /\ peticiones[b].op = "patch_hecha"
       /\ peticiones[a].id = peticiones[b].id
       /\ peticiones[a].nuevo_estado = "finalizada"
       /\ peticiones[b].nuevo_estado = "pausada"
       /\ peticiones[a].copia.estado = "iniciada"
       /\ peticiones[b].copia.estado = "iniciada"
       => /\ practicas[peticiones[a].id].estado = "finalizada"
          /\ practicas[peticiones[a].id].fecha_fin # Null

\* C28: every reading is inserted while its practice is 'iniciada', under any
\* interleaving of enviar_datos_sensores with a pause or a finish, and the
\* precision a finished practice stores counts every reading it has.
C28_LecturaSoloEnIniciada ==
    [][/\ Len(datos') > Len(datos) =>
             practicas[datos'[Len(datos')].practica].estado = "iniciada"
       /\ \A id \in DOMAIN practicas' :
             LET p == practicas'[id]
                 S == {i \in DOMAIN datos' : datos'[i].practica = id}
                 buenas == {i \in S : datos'[i].tecnica_correcta}
             IN p.estado = "finalizada" /\ S # {} =>
                   p.precision_promedio[1] * Cardinality(S) =
                      Cardinality(buenas) * 100 * p.precision_promedio[2]]_vars

(* ------------------------ device query: claims ------------------------- *)
\* C29: obtener_practica_activa answers puede_enviar_datos = true exactly when
\* a reading sent by that device in the same state would be accepted, and the
\* practice it reports is the one the reading would be attached to.
C29_PuedeEnviarDatos ==
    [][resp'.op = "practica_activa" /\ resp'.status = 200 =>
          LET destino == PracticaParaDatos(resp'.dev)
          IN /\ resp'.flag <=> destino # 0
             /\ destino # 0 => resp'.obj = destino]_vars

(* ------------------------- RA sessions: claims ------------------------- *)
\* the estados in which an RA session is open
EstadosAbiertos == {"conectando", "activa", "pausada"}

\* C30: after any sequence of conectar, stream, heartbeat, eventos and
\* desconectar requests every student has at most one RA session in an open
\* estado: conectar closes every earlier open session of the student (estado
\* 'desconectada', fecha_fin set) and creates the new 'activa' one, and no
\* request made with the token of a closed session is accepted afterwards.
C30_UnaSesionAbierta ==
    [][/\ \A e \in DOMAIN estudiantes :
             Cardinality({i \in DOMAIN sesiones' :
                             /\ sesiones'[i].estudiante = e
                             /\ sesiones'[i].estado \in EstadosAbiertos}) <= 1
       /\ resp'.op = "conectar" /\ resp'.status = 201 =>
             /\ sesiones'[resp'.obj].estado = "activa"
             /\ \A i \in DOMAIN sesiones :
                   /\ sesiones[i].estudiante = sesiones'[resp'.obj].estudiante
                   /\ sesiones[i].estado \in EstadosAbiertos
                   => /\ sesiones'[i].estado = "desconectada"
                      /\ sesiones'[i].fecha_fin = now
       /\ /\ resp'.op \in {"stream", "estado_practica", "evento", "heartbeat", "desconectar"}
          /\ resp'.obj \in DOMAIN sesiones
          /\ sesiones[resp'.obj].estado = "desconectada"
          => resp'.status \notin {200, 201}]_vars

(* --------------------------- students: claims -------------------------- *)
\* C21: a create-student request answers 201 and creates the Estudiante and
\* the User named by its code whenever no existing student holds the code or
\* the e-mail requested, and answers 400 creating neither when an existing
\* student holds one of them; this holds after any creations and deletions.
C21_CrearEstudiante ==
    [][resp'.op = "crear_estudiante" =>
          LET codigo == resp'.body[1]
              correo == resp'.body[2]
              ocupado == \E i \in DOMAIN estudiantes :
                            /\ estudiantes[i] # EstudianteEliminado
                            /\ \/ estudiantes[i].codigo_estudiante = codigo
                               \/ estudiantes[i].correo = correo
          IN IF ocupado
             THEN /\ resp'.status = 400
                  /\ estudiantes' = estudiantes
                  /\ users' = users
             ELSE /\ resp'.status = 201
                  /\ estudiantes' = Append(estudiantes,
                        [codigo_estudiante |-> codigo, correo |-> correo])
                  /\ users' = users \cup {codigo}]_vars

====
